---- MODULE Spec2Model ----
(***************************************************************************)
(* CountCam: the upload-and-persist pipeline.                              *)
(*                                                                         *)
(* The Upload Endpoint (POST /api/upload-video) exists in several          *)
(* revisions in the repository.  The revision that is deployed is the      *)
(* value of the variable rev:                                              *)
(*   "R1"  src/src/app/api/upload-video/route.ts, lines 22-106             *)
(*         (multipart or JSON, size and MIME checks, no History Store)     *)
(*   "R2"  src/unnamed/part_009, lines 28-227                              *)
(*         (client Firestore SDK, storage errors are swallowed)            *)
(*   "R3"  src/src/app/api/upload-video/route.ts, lines 118-238            *)
(*         (admin SDK, recordingDate + recordingTime)                      *)
(*   "R4"  src/unnamed/part_011, lines 161-268                             *)
(*         (admin SDK, one ISO recordingTimestamp)                         *)
(* The Model Client is countVisitorsFlow of                                *)
(* src/src/ai/flows/count-visitors.ts, lines 84-130.                       *)
(* The page is src/src/app/page.tsx: it calls the Model Client itself      *)
(* and keeps its history in React state and in localStorage.               *)
(***************************************************************************)
EXTENDS Integers, Sequences, FiniteSets, TLC

VARIABLES
    rev,        \* the deployed revision of the Upload Endpoint
    dbReady,    \* the datastore handle (db / dbAdmin) was initialised at module load
    req,        \* req[i]: the handler invocation of the i-th request
    store,      \* the History Store (collection visitor_logs), in write order
    writer,     \* history: writer[k] is the request whose handler wrote store[k]
    clock,      \* the wall clock, read by new Date() / Date.now() / Timestamp.now()
    page,       \* the React state of the page (src/src/app/page.tsx, 46-59)
    localStorage, \* the browser's entry under LOCAL_STORAGE_KEY
    batch,      \* the running handleBatchSubmit: its position and its locals
    toast,      \* the toast shown last
    download    \* the file the browser was handed last by handleDownloadCSV

vars == <<rev, dbReady, req, store, writer, clock, page, localStorage, batch, toast,
         download>>

\* the state of the browser
pageVars == <<page, localStorage, batch, toast, download>>

\* the state of the server
serverVars == <<rev, dbReady, req, store, writer>>

-----------------------------------------------------------------------------
(* Bounds *)

\* the number of upload requests the environment issues
MaxReqs == 2

Reqs == 1..MaxReqs

-----------------------------------------------------------------------------
(* Values *)

\* a missing form field (formData.get returns null), an undefined local
Null == "null"

\* docRefId stays undefined when no document was written
NoId == 0

Revisions == {"R1", "R2", "R3", "R4"}

MAX_FILE_SIZE_MB == 50

MAX_FILE_SIZE_BYTES == MAX_FILE_SIZE_MB * 1024 * 1024

\* z.enum([...]) of the revision's ai/types.ts
DirectionEnum(r) ==
    IF r = "R1" THEN {"entering", "exiting", "both"} ELSE {"entering", "exiting"}

\* a File part of the form; type is the MIME type split at the slash
NoFile == [present |-> FALSE, name |-> Null, type |-> <<"", "">>, size |-> 0]

VideoFile(n, t, s) == [present |-> TRUE, name |-> n, type |-> t, size |-> s]

\* mimeType.startsWith('video/')
StartsWithVideo(t) == t[1] = "video"

\* a number the model may put into its JSON: num/den, or something that is no number
Number(n, d) == [kind |-> "number", num |-> n, den |-> d]

NaN == [kind |-> "NaN", num |-> 0, den |-> 1]

\* z.number()
IsZodNumber(v) == v.kind = "number"

IsInteger(v) == v.kind = "number" /\ v.num % v.den = 0

IsNonNegative(v) == v.kind = "number" /\ v.num >= 0

-----------------------------------------------------------------------------
(* Dates: date-fns parse / parseISO / isValid *)

NoDateStr == [given |-> FALSE, shaped |-> FALSE, y |-> 0, mo |-> 0, d |-> 0]

\* a string of the shape dddd-dd-dd
DateStr(y, mo, d) == [given |-> TRUE, shaped |-> TRUE, y |-> y, mo |-> mo, d |-> d]

\* a string of another shape, such as 12/07/2024
OddDateStr == [given |-> TRUE, shaped |-> FALSE, y |-> 0, mo |-> 0, d |-> 0]

NoTimeStr == [given |-> FALSE, shaped |-> FALSE, h |-> 0, mi |-> 0]

\* a string of the shape dd:dd
TimeStr(h, mi) == [given |-> TRUE, shaped |-> TRUE, h |-> h, mi |-> mi]

NoIsoStr == [given |-> FALSE, shaped |-> FALSE, y |-> 0, mo |-> 0, d |-> 0, h |-> 0, mi |-> 0]

\* an ISO-8601 string yyyy-MM-ddTHH:mm:ssZ
IsoStr(y, mo, d, h, mi) ==
    [given |-> TRUE, shaped |-> TRUE, y |-> y, mo |-> mo, d |-> d, h |-> h, mi |-> mi]

IsLeapYear(y) == (y % 4 = 0 /\ y % 100 # 0) \/ y % 400 = 0

DaysInMonth(y, mo) ==
    IF mo = 2 THEN (IF IsLeapYear(y) THEN 29 ELSE 28)
    ELSE IF mo \in {4, 6, 9, 11} THEN 30 ELSE 31

ValidCalendarDate(y, mo, d) == mo \in 1..12 /\ d >= 1 /\ d <= DaysInMonth(y, mo)

\* a Date object; valid = FALSE is Invalid Date
InvalidDate == [valid |-> FALSE, y |-> 0, mo |-> 0, d |-> 0, h |-> 0, mi |-> 0]

\* dateParse(`${date} ${time}`, 'yyyy-MM-dd HH:mm', new Date())
dateParse(ds, ts) ==
    IF /\ ds.shaped /\ ts.shaped
       /\ ValidCalendarDate(ds.y, ds.mo, ds.d)
       /\ ts.h \in 0..23 /\ ts.mi \in 0..59
    THEN [valid |-> TRUE, y |-> ds.y, mo |-> ds.mo, d |-> ds.d, h |-> ts.h, mi |-> ts.mi]
    ELSE InvalidDate

\* parseISO(recordingTimestamp); 24:00 is the one hour-24 time ISO 8601 admits
parseISO(s) ==
    IF /\ s.shaped
       /\ ValidCalendarDate(s.y, s.mo, s.d)
       /\ \/ (s.h \in 0..23 /\ s.mi \in 0..59)
          \/ (s.h = 24 /\ s.mi = 0)
    THEN [valid |-> TRUE, y |-> s.y, mo |-> s.mo, d |-> s.d, h |-> s.h, mi |-> s.mi]
    ELSE InvalidDate

isValidDate(dt) == dt.valid

\* a Firestore Timestamp | null
NullTimestamp == [null |-> TRUE, y |-> 0, mo |-> 0, d |-> 0, h |-> 0, mi |-> 0]

\* Timestamp.fromDate(date)
TimestampFromDate(dt) ==
    [null |-> FALSE, y |-> dt.y, mo |-> dt.mo, d |-> dt.d, h |-> dt.h, mi |-> dt.mi]

-----------------------------------------------------------------------------
(* The Model Client: countVisitorsFlow *)

\* response.output of the external model: nothing (blocked, empty, no JSON), or an object
\* response.candidates?.[0]: none, or its finish reason and whether it has safety ratings
NoCandidate == [finishReason |-> Null, safetyRatings |-> FALSE]

Candidate(finishReason, safetyRatings) ==
    [finishReason |-> finishReason, safetyRatings |-> safetyRatings]

NoOutput ==
    [present |-> FALSE, visitorCount |-> NaN, countedDirection |-> Null,
     candidate |-> NoCandidate]

Output(v, d) ==
    [present |-> TRUE, visitorCount |-> v, countedDirection |-> d,
     candidate |-> Candidate("STOP", FALSE)]

\* a response blocked for safety reasons: no output, a candidate that says why
Blocked == [NoOutput EXCEPT !.candidate = Candidate("SAFETY", TRUE)]

BlockedMessage == "LLM did not return valid structured output or was blocked."

\* JSON.stringify(safetyRatings) of a blocked candidate
SafetyRatingsJson == "[{category: HARM_CATEGORY_DANGEROUS_CONTENT, probability: HIGH}]"

\* count-visitors.ts 96-112: the message of the error thrown when there is no output
BlockedError(out) ==
    IF out.candidate = NoCandidate THEN BlockedMessage
    ELSE BlockedMessage
         \o " Finish reason: " \o out.candidate.finishReason \o "."
         \o (IF out.candidate.safetyRatings
             THEN " Safety Ratings: " \o SafetyRatingsJson \o "."
             ELSE "")

SchemaMessage == "LLM output validation error"

InputMessage == "Schema validation failed for flow input"

\* CountVisitorsOutputSchema.safeParse(structuredOutput).success
OutputSchemaAccepts(r, out) ==
    /\ IsZodNumber(out.visitorCount)
    /\ out.countedDirection \in DirectionEnum(r)

\* inputSchema: CountVisitorsInputSchema, checked when the flow is entered
InputSchemaAccepts(r, direction) == direction \in DirectionEnum(r)

\* the flow without its safeParse of the structured output
countVisitorsFlow_NoSafeParse(r, direction, out) ==
    IF ~out.present
    THEN [threw |-> TRUE, message |-> BlockedError(out),
          visitorCount |-> NaN, countedDirection |-> Null]
    ELSE [threw |-> FALSE, message |-> "",
          visitorCount |-> out.visitorCount, countedDirection |-> out.countedDirection]

\* the flow treating a counted direction other than the requested one as an error
countVisitorsFlow_RejectsMismatch(r, direction, out) ==
    IF ~out.present
    THEN [threw |-> TRUE, message |-> BlockedError(out),
          visitorCount |-> NaN, countedDirection |-> Null]
    ELSE IF ~OutputSchemaAccepts(r, out) \/ out.countedDirection # direction
    THEN [threw |-> TRUE, message |-> SchemaMessage,
          visitorCount |-> NaN, countedDirection |-> Null]
    ELSE [threw |-> FALSE, message |-> "",
          visitorCount |-> out.visitorCount, countedDirection |-> out.countedDirection]

\* the body of the flow once the external model has answered with out:
\* threw = TRUE is a rejected promise carrying message
countVisitorsFlow(r, direction, out) ==
    IF ~out.present
    THEN [threw |-> TRUE, message |-> BlockedError(out),
          visitorCount |-> NaN, countedDirection |-> Null]
    ELSE IF ~OutputSchemaAccepts(r, out)
    THEN [threw |-> TRUE, message |-> SchemaMessage,
          visitorCount |-> NaN, countedDirection |-> Null]
    ELSE [threw |-> FALSE, message |-> "",
          visitorCount |-> out.visitorCount, countedDirection |-> out.countedDirection]

-----------------------------------------------------------------------------
(* The Upload Endpoint: what a handler invocation holds *)

\* the handler's local variables that live across an await
NoLocals ==
    [direction |-> Null, videoFileName |-> Null,
     recordingDate |-> NoDateStr, recordingTime |-> NoTimeStr,
     recordingStartDateTime |-> NullTimestamp,
     uploadSource |-> Null, locationName |-> Null,
     processingTimestamp |-> 0,
     visitorCount |-> NaN, countedDirection |-> Null]

\* call and write are the states of the promises of countVisitors(...) and of
\* collection('visitor_logs').add(...): none, inflight, fulfilled, rejected
\* calls counts the requests sent to the external model; status, error,
\* messageFromServer and details are the response: its status and the members of its
\* JSON body of those names
Idle ==
    [pc |-> "idle", call |-> "none", write |-> "none", calls |-> 0, l |-> NoLocals,
     status |-> 0, error |-> "", messageFromServer |-> Null, details |-> Null,
     id |-> NoId]

\* the outcome of reading and validating the request
Reject(st, err) == [status |-> st, error |-> err, l |-> NoLocals]

Accept(l) == [status |-> 0, error |-> "", l |-> l]

ErrNoFile == "No video file found in form data."

ErrNoDirection == "No direction specified in form data."

ErrDirection == "Invalid direction value"

ErrNotVideo == "Uploaded file is not a video"

ErrTooLarge == "File is too large."

ErrJson == "Invalid JSON request body."

ErrContentType == "Unsupported Content-Type."

ErrDateFormat == "Invalid recordingDate or recordingTime format."

ErrFileRequired == "Video file is required."

ErrDirectionRequired == "Valid direction (entering/exiting) is required."

ErrMissingFields == "Missing required form data fields"

ErrDateParse == "Internal Server Error: Failed to parse date/time from upload."

ErrFormData == "Failed to parse body as FormData."

ErrNoDb == "Firestore admin instance is not available."

ErrWrite == "Firestore write failed"

\* parsedDirection.error.format(), parsedBody.error.format()
ZodFormat == "ZodError.format()"

DateParseFailed == "CRITICAL: Date/time parsing FAILED on server."

DetailsSeeLogs == "See server logs for more details."

DetailsCheckLogs == "Check server logs for more specific error information."

ErrProcess == "Failed to process video."

ErrInternal == "Failed to process video due to an internal server error."

UnexpectedError ==
    "An unexpected error occurred while processing the video. Server detail: "

\* the details member of the responses the handler returns outside its catch block
ValidationDetails(err) ==
    CASE err \in {ErrDirection, ErrJson} -> ZodFormat
      [] err = ErrDateParse -> DateParseFailed
      [] OTHER -> Null

\* return NextResponse.json({error, details}, {status}) outside the catch block
Respond(r, st, err) ==
    [r EXCEPT !.pc = "done", !.status = st, !.error = err,
              !.details = ValidationDetails(err), !.l = NoLocals]

\* a catch block that sends the request to the model once more
Catch_Retry(rv, r, message) ==
    IF r.call = "rejected" /\ r.calls = 1
    THEN [r EXCEPT !.call = "inflight", !.calls = @ + 1]
    ELSE [r EXCEPT !.pc = "done", !.status = 500, !.error = message, !.l = NoLocals]

\* the catch block of the handler, entered with an error of message message
Catch(rv, r, message) ==
    CASE rv = "R1" ->
           [r EXCEPT !.pc = "done", !.status = 500, !.error = message, !.l = NoLocals]
      [] rv = "R2" ->
           [r EXCEPT !.pc = "done", !.status = 500, !.error = ErrProcess,
                     !.messageFromServer = message, !.details = DetailsSeeLogs,
                     !.l = NoLocals]
      [] rv = "R3" ->
           [r EXCEPT !.pc = "done", !.status = 500, !.error = ErrInternal,
                     !.messageFromServer = UnexpectedError \o message,
                     !.details = DetailsCheckLogs, !.l = NoLocals]
      [] rv = "R4" ->
           [r EXCEPT !.pc = "done", !.status = 500, !.error = ErrInternal,
                     !.messageFromServer = message, !.l = NoLocals]

\* let mimeType = file.type, overridden by a 'videoFile;type=video/...' field key
MimeType(inp) ==
    IF inp.typeKey # <<"", "">> /\ StartsWithVideo(inp.typeKey)
    THEN inp.typeKey ELSE inp.videoFile.type

\* s.startsWith('data:video/') && s.includes(';base64,') of the JSON body's videoDataUri,
\* which is the data URI of the request's video
DataUriAccepted(inp) == inp.videoFile.present /\ StartsWithVideo(inp.videoFile.type)

-----------------------------------------------------------------------------
(* The Upload Endpoint: reading and validating the request, per revision *)

\* R1: route.ts 22-106
ParseR1(inp) ==
    IF inp.contentType = "multipart/form-data" THEN
        IF ~inp.videoFile.present THEN Reject(400, ErrNoFile)
        ELSE IF inp.direction = Null THEN Reject(400, ErrNoDirection)
        ELSE IF inp.direction \notin DirectionEnum("R1") THEN Reject(400, ErrDirection)
        ELSE IF ~StartsWithVideo(MimeType(inp)) THEN Reject(400, ErrNotVideo)
        ELSE IF inp.videoFile.size > MAX_FILE_SIZE_BYTES THEN Reject(413, ErrTooLarge)
        ELSE Accept([NoLocals EXCEPT !.direction = inp.direction,
                                     !.videoFileName = inp.videoFile.name])
    ELSE IF inp.contentType = "application/json" THEN
        IF ~DataUriAccepted(inp) \/ inp.direction \notin DirectionEnum("R1")
        THEN Reject(400, ErrJson)
        ELSE Accept([NoLocals EXCEPT !.direction = inp.direction,
                                     !.videoFileName = "uploaded_video"])
    ELSE Reject(415, ErrContentType)

\* R2, part_009 126-138: the date check shared by the multipart and the JSON branch
DateCheckR2(l) ==
    IF l.recordingDate.given /\ l.recordingTime.given THEN
        IF ~l.recordingDate.shaped \/ ~l.recordingTime.shaped
        THEN Reject(400, ErrDateFormat)
        ELSE LET parsedDateTime == dateParse(l.recordingDate, l.recordingTime) IN
             Accept([l EXCEPT !.recordingStartDateTime =
                                 IF isValidDate(parsedDateTime)
                                 THEN TimestampFromDate(parsedDateTime)
                                 ELSE NullTimestamp,
                              !.recordingDate = NoDateStr,
                              !.recordingTime = NoTimeStr])
    ELSE Accept([l EXCEPT !.recordingDate = NoDateStr, !.recordingTime = NoTimeStr])

\* R2: part_009 28-138
ParseR2(inp) ==
    IF inp.contentType = "multipart/form-data" THEN
        IF ~inp.videoFile.present THEN Reject(400, ErrNoFile)
        ELSE IF inp.direction = Null THEN Reject(400, ErrNoDirection)
        ELSE IF inp.direction \notin DirectionEnum("R2") THEN Reject(400, ErrDirection)
        ELSE IF ~StartsWithVideo(MimeType(inp)) THEN Reject(400, ErrNotVideo)
        ELSE IF inp.videoFile.size > MAX_FILE_SIZE_BYTES THEN Reject(413, ErrTooLarge)
        ELSE DateCheckR2(
                [NoLocals EXCEPT
                    !.direction = inp.direction,
                    !.videoFileName = inp.videoFile.name,
                    !.recordingDate = inp.recordingDate,
                    !.recordingTime = inp.recordingTime,
                    !.uploadSource = IF inp.uploadSource = "ui" THEN "ui" ELSE "api",
                    !.locationName = IF inp.locationName # Null
                                     THEN inp.locationName ELSE "N/A"])
    ELSE IF inp.contentType = "application/json" THEN
        IF \/ ~DataUriAccepted(inp)
           \/ inp.direction \notin DirectionEnum("R2")
           \/ (inp.recordingDate.given /\ ~inp.recordingDate.shaped)
           \/ (inp.recordingTime.given /\ ~inp.recordingTime.shaped)
           \/ inp.uploadSource \notin {Null, "ui", "api"}
        THEN Reject(400, ErrJson)
        ELSE DateCheckR2(
                [NoLocals EXCEPT
                    !.direction = inp.direction,
                    !.videoFileName = "uploaded_video",
                    !.recordingDate = inp.recordingDate,
                    !.recordingTime = inp.recordingTime,
                    !.uploadSource = IF inp.uploadSource = Null
                                     THEN "api" ELSE inp.uploadSource,
                    !.locationName = IF inp.locationName # Null
                                     THEN inp.locationName ELSE "N/A"])
    ELSE Reject(415, ErrContentType)

\* R3: route.ts 118-150; request.formData() throws on a body that is no form
ParseR3(inp) ==
    IF inp.contentType # "multipart/form-data" THEN Reject(500, ErrFormData)
    ELSE IF ~inp.videoFile.present THEN Reject(400, ErrFileRequired)
    ELSE IF inp.direction \notin {"entering", "exiting"}
    THEN Reject(400, ErrDirectionRequired)
    ELSE Accept([NoLocals EXCEPT
                    !.direction = inp.direction,
                    !.videoFileName = inp.videoFile.name,
                    !.recordingDate = inp.recordingDate,
                    !.recordingTime = inp.recordingTime,
                    !.uploadSource = IF inp.uploadSource # Null
                                     THEN inp.uploadSource ELSE "api",
                    !.locationName = inp.locationName])

\* R4: part_011 161-216
ParseR4(inp) ==
    IF inp.contentType # "multipart/form-data" THEN Reject(500, ErrFormData)
    ELSE IF \/ ~inp.videoFile.present
            \/ inp.direction = Null
            \/ inp.locationName = Null
            \/ ~inp.recordingTimestamp.given
    THEN Reject(400, ErrMissingFields)
    ELSE LET parsedDate == parseISO(inp.recordingTimestamp) IN
         IF ~isValidDate(parsedDate) THEN Reject(500, ErrDateParse)
         ELSE Accept([NoLocals EXCEPT
                        !.direction = inp.direction,
                        !.videoFileName = inp.videoFile.name,
                        !.recordingStartDateTime = TimestampFromDate(parsedDate),
                        !.uploadSource = IF inp.uploadSource # Null
                                         THEN inp.uploadSource ELSE "api",
                        !.locationName = inp.locationName])

Parse(r, inp) ==
    CASE r = "R1" -> ParseR1(inp)
      [] r = "R2" -> ParseR2(inp)
      [] r = "R3" -> ParseR3(inp)
      [] r = "R4" -> ParseR4(inp)

-----------------------------------------------------------------------------
(* The History Store *)

\* the id Firestore assigns to a new document: one no document of the collection has
NewId(s) == Len(s) + 1

\* const dataToSave = {...}
DataToSave(l) ==
    [id |-> NoId,
     visitorCount |-> l.visitorCount,
     countedDirection |-> l.countedDirection,
     processingTimestamp |-> l.processingTimestamp,
     videoFileName |-> l.videoFileName,
     recordingStartDateTime |-> l.recordingStartDateTime,
     uploadSource |-> l.uploadSource,
     locationName |-> l.locationName]

\* an add that resolves without the document having been written
AddDoc_Lost(s, data) == s

\* an add that keeps one document per video file name
AddDoc_Dedup(s, data) ==
    IF \E k \in DOMAIN s : s[k].videoFileName = data.videoFileName
    THEN s
    ELSE Append(s, [data EXCEPT !.id = Len(s) + 1])

\* an add that writes over the latest document of the collection
AddDoc_Overwrite(s, data) ==
    IF s = <<>>
    THEN <<[data EXCEPT !.id = 1]>>
    ELSE [s EXCEPT ![Len(s)] = [data EXCEPT !.id = Len(s)]]

\* collection('visitor_logs').add(dataToSave) / addDoc(collection(db, "visitor_logs"), dataToSave)
AddDoc(s, data) == Append(s, [data EXCEPT !.id = NewId(s)])

-----------------------------------------------------------------------------
(* The requests and the model outputs the environment produces *)

NoType == <<"", "">>

Clip == VideoFile("20240712_143000.mp4", <<"video", "mp4">>, 1024)

ClipAtCap == VideoFile("20240712_143000.mp4", <<"video", "mp4">>, MAX_FILE_SIZE_BYTES)

ClipOverCap == VideoFile("20240712_143000.mp4", <<"video", "mp4">>, MAX_FILE_SIZE_BYTES + 1)

\* the same clip sent without a MIME type of its own (curl -F videoFile=@clip.mp4)
Untyped == VideoFile("20240712_143000.mp4", <<"application", "octet-stream">>, 1024)

\* a well-formed upload of every revision: it carries both timestamp conventions
Base ==
    [contentType |-> "multipart/form-data",
     videoFile |-> Clip,
     typeKey |-> NoType,
     direction |-> "entering",
     recordingDate |-> DateStr(2024, 7, 12),
     recordingTime |-> TimeStr(14, 30),
     recordingTimestamp |-> IsoStr(2024, 7, 12, 14, 30),
     uploadSource |-> "ui",
     locationName |-> "Lobby"]

\* the requests: Base, and Base with one part changed
Inputs ==
    {Base}
    \cup {[Base EXCEPT !.contentType = c] : c \in {"application/json", "text/plain"}}
    \cup {[Base EXCEPT !.videoFile = f] : f \in {NoFile, ClipAtCap, ClipOverCap, Untyped}}
    \cup {[Base EXCEPT !.videoFile = Untyped, !.typeKey = <<"video", "mp4">>]}
    \cup {[Base EXCEPT !.direction = d] : d \in {Null, "both"}}
    \cup {[Base EXCEPT !.recordingDate = NoDateStr, !.recordingTime = NoTimeStr,
                       !.recordingTimestamp = NoIsoStr]}
    \cup {[Base EXCEPT !.recordingDate = DateStr(2024, 13, 1),
                       !.recordingTimestamp = IsoStr(2024, 13, 1, 14, 30)]}
    \cup {[Base EXCEPT !.recordingDate = OddDateStr,
                       !.recordingTimestamp = [NoIsoStr EXCEPT !.given = TRUE]]}
    \cup {[Base EXCEPT !.contentType = "application/json", !.recordingDate = OddDateStr]}
    \cup {[Base EXCEPT !.uploadSource = "script"]}
    \cup {[Base EXCEPT !.uploadSource = Null, !.locationName = Null]}

\* what the external model may answer
ModelOutputs ==
    {NoOutput, Blocked}
    \cup {Output(Number(7, 1), "entering"),
          Output(Number(0 - 1, 1), "entering"),
          Output(Number(3, 2), "exiting"),
          Output(NaN, "entering"),
          Output(Number(7, 1), "sideways")}

-----------------------------------------------------------------------------
(* The Upload Endpoint: the steps of a handler invocation *)

\* from the arrival of the i-th request to the first await of the handler
Receive(i, inp) ==
    /\ req[i].pc = "idle"
    /\ IF i = 1 THEN TRUE ELSE req[i - 1].pc # "idle"
    /\ LET o == Parse(rev, inp) IN
       IF o.status # 0
       THEN /\ req' = [req EXCEPT ![i] = IF o.error = ErrFormData
                                          THEN Catch(rev, @, o.error)
                                          ELSE Respond(@, o.status, o.error)]
            /\ UNCHANGED clock
       ELSE IF ~InputSchemaAccepts(rev, o.l.direction)
       THEN /\ req' = [req EXCEPT ![i] = Catch(rev, [@ EXCEPT !.call = "rejected"],
                                               InputMessage)]
            /\ UNCHANGED clock
       ELSE IF rev = "R2"
       THEN /\ req' = [req EXCEPT ![i] =
                        [@ EXCEPT !.pc = "awaitModel", !.call = "inflight", !.calls = @ + 1,
                                  !.l = [o.l EXCEPT !.processingTimestamp = clock]]]
            /\ clock' = clock + 1
       ELSE /\ req' = [req EXCEPT ![i] =
                        [@ EXCEPT !.pc = "awaitModel", !.call = "inflight", !.calls = @ + 1,
                                  !.l = o.l]]
            /\ UNCHANGED clock
    /\ UNCHANGED <<rev, dbReady, store, writer>>
    /\ UNCHANGED pageVars

\* R3, route.ts 162-174: the recording time is parsed after the model call
RecordingStartR3(l) ==
    IF l.recordingDate.given /\ l.recordingTime.given
    THEN LET parsedDate == dateParse(l.recordingDate, l.recordingTime) IN
         IF isValidDate(parsedDate) THEN TimestampFromDate(parsedDate) ELSE NullTimestamp
    ELSE NullTimestamp

\* what the handler holds once countVisitors has resolved with res
AfterModel(r, l, res, now) ==
    LET m == [l EXCEPT !.visitorCount = res.visitorCount,
                       !.countedDirection = res.countedDirection] IN
    CASE r = "R1" -> m
      [] r = "R2" -> m
      [] r = "R3" -> [m EXCEPT !.recordingStartDateTime = RecordingStartR3(l),
                               !.recordingDate = NoDateStr,
                               !.recordingTime = NoTimeStr,
                               !.processingTimestamp = now,
                               !.locationName = IF l.locationName # Null
                                                THEN l.locationName ELSE "N/A"]
      [] r = "R4" -> [m EXCEPT !.processingTimestamp = now]

\* the await of countVisitors ends: the external model has answered with out
ModelReturn(i, out) ==
    /\ req[i].pc = "awaitModel"
    /\ LET res == countVisitorsFlow(rev, req[i].l.direction, out)
           l == AfterModel(rev, req[i].l, res, clock) IN
       IF res.threw
       THEN /\ req' = [req EXCEPT ![i] = Catch(rev, [@ EXCEPT !.call = "rejected"],
                                               res.message)]
            /\ UNCHANGED clock
       ELSE IF rev = "R1"
       THEN /\ req' = [req EXCEPT ![i] =
                        [@ EXCEPT !.pc = "done", !.call = "fulfilled", !.l = l,
                                  !.status = 200]]
            /\ UNCHANGED clock
       ELSE IF rev = "R2"
       THEN /\ req' = [req EXCEPT ![i] =
                        IF dbReady
                        THEN [@ EXCEPT !.pc = "awaitStore", !.call = "fulfilled",
                                       !.write = "inflight", !.l = l]
                        ELSE [@ EXCEPT !.pc = "done", !.call = "fulfilled",
                                       !.write = "rejected", !.l = l, !.status = 200]]
            /\ UNCHANGED clock
       ELSE /\ req' = [req EXCEPT ![i] =
                        IF dbReady
                        THEN [@ EXCEPT !.pc = "awaitStore", !.call = "fulfilled",
                                       !.write = "inflight", !.l = l]
                        ELSE Catch(rev, [@ EXCEPT !.call = "fulfilled"], ErrNoDb)]
            /\ clock' = clock + 1
    /\ UNCHANGED <<rev, dbReady, store, writer>>
    /\ UNCHANGED pageVars

\* the await of add(dataToSave) ends: the document was written (ok) or the write failed
StoreReturn(i, ok) ==
    /\ req[i].pc = "awaitStore"
    /\ IF ok
       THEN /\ store' = AddDoc(store, DataToSave(req[i].l))
            /\ writer' = Append(writer, i)
            /\ req' = [req EXCEPT ![i] =
                        [@ EXCEPT !.pc = "done", !.write = "fulfilled",
                                  !.status = 200, !.id = NewId(store)]]
       ELSE /\ req' = [req EXCEPT ![i] =
                        IF rev = "R2"
                        THEN [@ EXCEPT !.pc = "done", !.write = "rejected", !.status = 200]
                        ELSE Catch(rev, [@ EXCEPT !.write = "rejected"], ErrWrite)]
            /\ UNCHANGED <<store, writer>>
    /\ UNCHANGED <<rev, dbReady, clock>>
    /\ UNCHANGED pageVars

-----------------------------------------------------------------------------
(* The page: file names *)

\* the characters of a file name
Chars(name) ==
    CASE name = "20240712_143000.mp4" ->
           <<"2", "0", "2", "4", "0", "7", "1", "2", "_", "1", "4", "3", "0", "0",
             "0", ".", "m", "p", "4">>
      [] name = "walk.mov" ->
           <<"w", "a", "l", "k", ".", "m", "o", "v">>
      [] name = "2024-07-12_14-30-00.mp4" ->
           <<"2", "0", "2", "4", "-", "0", "7", "-", "1", "2", "_", "1", "4", "-",
             "3", "0", "-", "0", "0", ".", "m", "p", "4">>
      [] name = "cam_2024_07_12 14:30:00.mov" ->
           <<"c", "a", "m", "_", "2", "0", "2", "4", "_", "0", "7", "_", "1", "2",
             " ", "1", "4", ":", "3", "0", ":", "0", "0", ".", "m", "o", "v">>
      [] name = "20240229_235959.mp4" ->
           <<"2", "0", "2", "4", "0", "2", "2", "9", "_", "2", "3", "5", "9", "5",
             "9", ".", "m", "p", "4">>
      [] name = "20241312_143000.mp4" ->
           <<"2", "0", "2", "4", "1", "3", "1", "2", "_", "1", "4", "3", "0", "0",
             "0", ".", "m", "p", "4">>
      [] name = "20240230_143000.mp4" ->
           <<"2", "0", "2", "4", "0", "2", "3", "0", "_", "1", "4", "3", "0", "0",
             "0", ".", "m", "p", "4">>
      [] name = "20230229_120000.mp4" ->
           <<"2", "0", "2", "3", "0", "2", "2", "9", "_", "1", "2", "0", "0", "0",
             "0", ".", "m", "p", "4">>
      [] name = "20240712_256000.mp4" ->
           <<"2", "0", "2", "4", "0", "7", "1", "2", "_", "2", "5", "6", "0", "0",
             "0", ".", "m", "p", "4">>
      [] name = "2024071.mp4" ->
           <<"2", "0", "2", "4", "0", "7", "1", ".", "m", "p", "4">>
      [] OTHER -> <<>>

Digits == {"0", "1", "2", "3", "4", "5", "6", "7", "8", "9"}

DigitValue(c) ==
    CASE c = "0" -> 0 [] c = "1" -> 1 [] c = "2" -> 2 [] c = "3" -> 3 [] c = "4" -> 4
      [] c = "5" -> 5 [] c = "6" -> 6 [] c = "7" -> 7 [] c = "8" -> 8 [] c = "9" -> 9

\* the number a string of digits denotes
RECURSIVE ToInt(_)
ToInt(ds) ==
    IF ds = <<>> THEN 0
    ELSE 10 * ToInt(SubSeq(ds, 1, Len(ds) - 1)) + DigitValue(ds[Len(ds)])

\* the items of a regular expression: (\d{n}), [set]?, and a literal character
D(n) == [k |-> "digits", n |-> n, set |-> {}]

Opt(set) == [k |-> "optional", n |-> 0, set |-> set]

Lit(c) == [k |-> "literal", n |-> 1, set |-> {c}]

\* the three patterns of parseDateTimeFromFilename
Patterns ==
    << <<D(4), Opt({"-", "_"}), D(2), Opt({"-", "_"}), D(2), Opt({"-", "_", " "}),
         D(2), Opt({"-", "_", ":"}), D(2), Opt({"-", "_", ":"}), D(2)>>,
       <<D(4), D(2), D(2), Lit("_"), D(2), D(2), D(2)>>,
       <<D(4), Lit("-"), D(2), Lit("-"), D(2), Lit("_"), D(2), Lit("-"), D(2),
         Lit("-"), D(2)>> >>

NoMatch == [matched |-> FALSE, groups |-> <<>>]

\* the items of pat from the k-th on match s from position pos on; groups are the
\* captures so far.  An optional separator that is there is always taken: the item
\* after it is a digit group, which cannot start with the separator.
RECURSIVE MatchAt(_, _, _, _, _)
MatchAt(pat, k, s, pos, groups) ==
    IF k > Len(pat) THEN [matched |-> TRUE, groups |-> groups]
    ELSE LET it == pat[k] IN
         CASE it.k = "digits" ->
                IF /\ pos + it.n - 1 <= Len(s)
                   /\ \A q \in pos..(pos + it.n - 1) : s[q] \in Digits
                THEN MatchAt(pat, k + 1, s, pos + it.n,
                             Append(groups, SubSeq(s, pos, pos + it.n - 1)))
                ELSE NoMatch
           [] it.k = "optional" ->
                IF pos <= Len(s) /\ s[pos] \in it.set
                THEN MatchAt(pat, k + 1, s, pos + 1, groups)
                ELSE MatchAt(pat, k + 1, s, pos, groups)
           [] it.k = "literal" ->
                IF pos <= Len(s) /\ s[pos] \in it.set
                THEN MatchAt(pat, k + 1, s, pos + 1, groups)
                ELSE NoMatch

\* filename.match(pattern): the leftmost match
Match(s, pat) ==
    LET starts == {p \in 1..Len(s) : MatchAt(pat, 1, s, p, <<>>).matched} IN
    IF starts = {} THEN NoMatch
    ELSE MatchAt(pat, 1, s, CHOOSE p \in starts : \A q \in starts : p <= q, <<>>)

\* the file names of the model
FileNames ==
    {"20240712_143000.mp4", "walk.mov", "2024-07-12_14-30-00.mp4",
     "cam_2024_07_12 14:30:00.mov", "20240229_235959.mp4", "20241312_143000.mp4",
     "20240230_143000.mp4", "20230229_120000.mp4", "20240712_256000.mp4",
     "2024071.mp4"}

\* what parseDateTimeFromFilename returns: {date?, time?}
NoParse == [date |-> NoDateStr, time |-> NoTimeStr]

\* a property of the match array that is not there: match.year
Undefined == [defined |-> FALSE, text |-> <<>>]

\* dateParse(`${year}-${month}-${day} ${hour}:${minute}:${second}`, 'yyyy-MM-dd HH:mm:ss')
dateParseSeconds(year, month, day, hour, minute, second) ==
    IF /\ year.defined
       /\ ValidCalendarDate(ToInt(year.text), ToInt(month), ToInt(day))
       /\ ToInt(hour) \in 0..23 /\ ToInt(minute) \in 0..59 /\ ToInt(second) \in 0..59
    THEN [valid |-> TRUE, y |-> ToInt(year.text), mo |-> ToInt(month), d |-> ToInt(day),
          h |-> ToInt(hour), mi |-> ToInt(minute)]
    ELSE InvalidDate

\* the loop body, had it taken the year from the first group and returned what it
\* read without asking isValid
ParseWithPattern_Unvalidated(s, pat) ==
    LET match == Match(s, pat) IN
    IF ~match.matched THEN NoParse
    ELSE [date |-> DateStr(ToInt(match.groups[1]), ToInt(match.groups[2]),
                           ToInt(match.groups[3])),
          time |-> TimeStr(ToInt(match.groups[4]), ToInt(match.groups[5]))]

\* the body of the loop of parseDateTimeFromFilename for one pattern.  Every pattern
\* has the named group year, so match.groups is there and the first branch is taken;
\* year is destructured from the match array itself, which has no property year.
ParseWithPattern(s, pat) ==
    LET match == Match(s, pat) IN
    IF ~match.matched THEN NoParse
    ELSE LET year == Undefined
             parsedDate == dateParseSeconds(year, match.groups[2], match.groups[3],
                                            match.groups[4], match.groups[5],
                                            match.groups[6])
         IN IF Len(match.groups) + 1 >= 7 /\ isValidDate(parsedDate)
            THEN [date |-> DateStr(parsedDate.y, parsedDate.mo, parsedDate.d),
                  time |-> TimeStr(parsedDate.h, parsedDate.mi)]
            ELSE NoParse

\* the first pattern, in order, that gives a valid date decides
parseDateTimeFromFilename(filename) ==
    LET s == Chars(filename)
        hits == {k \in DOMAIN Patterns : ParseWithPattern(s, Patterns[k]) # NoParse}
    IN IF hits = {} THEN NoParse
       ELSE ParseWithPattern(s, Patterns[CHOOSE k \in hits : \A j \in hits : k <= j])

\* parseDateTimeFromFilename on the file names of the model, computed once
ParsedName == [n \in FileNames |-> parseDateTimeFromFilename(n)]

-----------------------------------------------------------------------------
(* The page: values *)

\* the number of files the user picks at once
MaxFiles == 2

\* the wall clock up to which the user starts batches
MaxClock == 3

\* a || b on strings: undefined and "" are both falsy and both stand as not given
Or(a, b) == IF a.given THEN a ELSE b

\* format(new Date(), "yyyy-MM-dd") and format(new Date(), "HH:mm") at mount
defaultRecordingDate == DateStr(2024, 7, 12)

defaultRecordingTime == TimeStr(14, 30)

NoError == [msg |-> Null, file |-> Null]

PageError(msg, file) == [msg |-> msg, file |-> file]

ErrSkippedLarge == "is too large (max 50MB). It will be skipped."

ErrSkippedType == "is not a valid video type. It will be skipped."

ErrPageDate == "Invalid recording start date/time"

ErrPageCount == "Failed to count visitors"

NoToast == [title |-> Null, successCount |-> 0, errorCount |-> 0]

Toast(title) == [title |-> title, successCount |-> 0, errorCount |-> 0]

\* the toast of handleBatchSubmit, 269-273
SummaryToast(successCount, errorCount) ==
    [title |-> "Batch Processing Finished", successCount |-> successCount,
     errorCount |-> errorCount]

\* no file was handed to the browser
NoDownload == [header |-> Null, rows |-> <<>>]

\* no StatisticsData
NoStatistics ==
    [visitorCount |-> NaN, countedDirection |-> Null, id |-> NoId, timestamp |-> 0,
     recordingStartDateTime |-> InvalidDate, videoFileName |-> Null]

\* newEntry of processSingleFile, 199-205
NewEntry(result, now, startDateTime, file) ==
    [visitorCount |-> result.visitorCount, countedDirection |-> result.countedDirection,
     id |-> now, timestamp |-> now, recordingStartDateTime |-> startDateTime,
     videoFileName |-> file.name]

\* JSON.stringify of the history: a Date becomes its ISO string
JSONStringify(h) ==
    [k \in DOMAIN h |->
        [h[k] EXCEPT !.recordingStartDateTime =
            IsoStr(@.y, @.mo, @.d, @.h, @.mi)]]

\* the state of the page after mount with nothing in localStorage
InitialPage ==
    [selectedFiles |-> <<>>, processing |-> FALSE, isBatchProcessing |-> FALSE,
     batchProgress |-> Number(0, 1), currentBatchFileIndex |-> 0,
     currentStatistics |-> NoStatistics, error |-> NoError, history |-> <<>>,
     selectedDirection |-> "entering", formRecordingDate |-> defaultRecordingDate,
     formRecordingTime |-> defaultRecordingTime]

\* no handleBatchSubmit is running.  n, before, failed and added are history: the
\* number of files of the batch, the length of the history when it started, how many
\* of its files have failed so far (date and time that do not parse, a FileReader
\* error, a failed model call) and, once it has finished, by how many entries the
\* history has grown since it started.  attempted, called, inflight and summaries are
\* history too: the indices of the files handed to processSingleFile, in order, the
\* indices of the files for which countVisitors was called, in order, the calls of
\* countVisitors that have not returned yet, and the number of summaries reported
IdleBatch ==
    [pc |-> "idle", i |-> 0, successCount |-> 0, errorCount |-> 0,
     startDateTime |-> InvalidDate, n |-> 0, before |-> 0, failed |-> 0, added |-> 0,
     attempted |-> <<>>, called |-> <<>>, inflight |-> {}, summaries |-> 0]

\* the files the user can pick
PageFiles == {Clip, ClipOverCap, Untyped}

\* what the external model may answer to the page
PageOutputs ==
    {NoOutput, Output(NaN, "entering"),
     Output(Number(7, 1), "entering"), Output(Number(2, 1), "exiting")}

RECURSIVE SeqsUpTo(_, _)
SeqsUpTo(S, n) ==
    IF n = 0 THEN {<<>>}
    ELSE LET shorter == SeqsUpTo(S, n - 1) IN
         shorter \cup {Append(q, x) : q \in shorter, x \in S}

FileLists == SeqsUpTo(PageFiles, MaxFiles)

-----------------------------------------------------------------------------
(* The page: handlers *)

\* the loop of handleFileChange, 141-153: files from the k-th on
RECURSIVE ScanFiles(_, _, _, _)
ScanFiles(files, k, newBatchFiles, error) ==
    IF k > Len(files) THEN [files |-> newBatchFiles, error |-> error]
    ELSE LET file == files[k] IN
         IF file.size > 50 * 1024 * 1024
         THEN ScanFiles(files, k + 1, newBatchFiles, PageError(ErrSkippedLarge, file.name))
         ELSE IF ~StartsWithVideo(file.type)
         THEN ScanFiles(files, k + 1, newBatchFiles, PageError(ErrSkippedType, file.name))
         ELSE LET parsed == ParsedName[file.name] IN
              ScanFiles(files, k + 1,
                        Append(newBatchFiles,
                               [file |-> file, parsedDate |-> parsed.date,
                                parsedTime |-> parsed.time]),
                        error)

handleFileChange(files) ==
    /\ ~(page.processing \/ page.isBatchProcessing)
    /\ LET r == ScanFiles(files, 1, <<>>, NoError) IN
       /\ page' = [page EXCEPT !.error = r.error, !.currentStatistics = NoStatistics,
                               !.selectedFiles = r.files]
       /\ toast' = IF Len(r.files) = 0 /\ Len(files) > 0
                   THEN Toast("No valid files selected")
                   ELSE IF Len(r.files) < Len(files)
                   THEN Toast("Some files skipped")
                   ELSE toast
    /\ UNCHANGED <<localStorage, batch, clock>>
    /\ UNCHANGED download
    /\ UNCHANGED serverVars

setFormRecordingDate(value) ==
    /\ ~(page.processing \/ page.isBatchProcessing)
    /\ page' = [page EXCEPT !.formRecordingDate = value]
    /\ UNCHANGED <<localStorage, batch, toast, clock>>
    /\ UNCHANGED download
    /\ UNCHANGED serverVars

setFormRecordingTime(value) ==
    /\ ~(page.processing \/ page.isBatchProcessing)
    /\ page' = [page EXCEPT !.formRecordingTime = value]
    /\ UNCHANGED <<localStorage, batch, toast, clock>>
    /\ UNCHANGED download
    /\ UNCHANGED serverVars

setSelectedDirection(value) ==
    /\ ~(page.processing \/ page.isBatchProcessing)
    /\ page' = [page EXCEPT !.selectedDirection = value]
    /\ UNCHANGED <<localStorage, batch, toast, clock>>
    /\ UNCHANGED download
    /\ UNCHANGED serverVars

\* handleBatchSubmit, had it counted every file as a success
Tally_AlwaysSuccess(b, success) == [b EXCEPT !.successCount = @ + 1]

\* successCount++ / errorCount++ of handleBatchSubmit, 256-260
Tally(b, success) ==
    IF success THEN [b EXCEPT !.successCount = @ + 1]
    ELSE [b EXCEPT !.errorCount = @ + 1]

\* setHistory of processSingleFile, 209-213: the new entry goes to the front
PrependEntry(history, newEntry) == <<newEntry>> \o history

\* handleBatchSubmit, had it set the progress from i instead of i + 1
AfterFile_ProgressBehind(pg, b, success, outcome) ==
    [page  |-> [pg EXCEPT !.batchProgress = Number(b.i * 100, b.n)],
     batch |-> [Tally(b, success) EXCEPT
                   !.i = b.i + 1,
                   !.failed = IF outcome = "ok" THEN @ ELSE @ + 1]]

\* handleBatchSubmit 255-261: processSingleFile has returned success for file b.i
AfterFile(pg, b, success, outcome) ==
    [page  |-> [pg EXCEPT !.batchProgress = Number((b.i + 1) * 100, b.n)],
     batch |-> [Tally(b, success) EXCEPT
                   !.i = b.i + 1,
                   !.failed = IF outcome = "ok" THEN @ ELSE @ + 1]]

\* the end of handleBatchSubmit, had it left the batch flag and the selection alone
FinishBatch_LeavesFlag(pg, b) ==
    [page  |-> pg,
     batch |-> [IdleBatch EXCEPT !.n = b.n, !.failed = b.failed,
                                 !.added = Len(pg.history) - b.before,
                                 !.attempted = b.attempted, !.called = b.called,
                                 !.inflight = b.inflight,
                                 !.summaries = b.summaries + 1],
     toast |-> SummaryToast(b.successCount, b.errorCount)]

\* handleBatchSubmit 264-273: after the loop
FinishBatch(pg, b) ==
    [page  |-> [pg EXCEPT !.isBatchProcessing = FALSE, !.selectedFiles = <<>>],
     batch |-> [IdleBatch EXCEPT !.n = b.n, !.failed = b.failed,
                                 !.added = Len(pg.history) - b.before,
                                 !.attempted = b.attempted, !.called = b.called,
                                 !.inflight = b.inflight,
                                 !.summaries = b.summaries + 1],
     toast |-> SummaryToast(b.successCount, b.errorCount)]

RECURSIVE LoopFrom(_, _, _)

\* the loop, had it stopped at the first file that failed
LoopFrom_StopsAtFailure(pg, b, t) ==
    IF b.i >= Len(pg.selectedFiles) \/ b.errorCount > 0 THEN FinishBatch(pg, b)
    ELSE LET batchFile == pg.selectedFiles[b.i + 1]
             startDateTime == dateParse(Or(batchFile.parsedDate, pg.formRecordingDate),
                                        Or(batchFile.parsedTime, pg.formRecordingTime))
             p1 == [pg EXCEPT !.currentBatchFileIndex = b.i, !.processing = TRUE,
                              !.error = NoError, !.currentStatistics = NoStatistics]
             b1 == [b EXCEPT !.attempted = Append(@, b.i)]
         IN IF ~isValidDate(startDateTime)
            THEN LET a == AfterFile([p1 EXCEPT !.processing = FALSE], b1, FALSE, "date")
                 IN LoopFrom(a.page, a.batch, Toast("Invalid Input"))
            ELSE [page  |-> p1,
                  batch |-> [b1 EXCEPT !.pc = "reading", !.startDateTime = startDateTime],
                  toast |-> t]

\* handleBatchSubmit 249-262 with processSingleFile 167-187: the loop from its head
\* at index b.i up to the next await (the FileReader of a file) or to the end of
\* the handler; a file whose date and time do not parse fails without an await
LoopFrom(pg, b, t) ==
    IF b.i >= Len(pg.selectedFiles) THEN FinishBatch(pg, b)
    ELSE LET batchFile == pg.selectedFiles[b.i + 1]
             recordingDateToUse == Or(batchFile.parsedDate, pg.formRecordingDate)
             recordingTimeToUse == Or(batchFile.parsedTime, pg.formRecordingTime)
             startDateTime == dateParse(recordingDateToUse, recordingTimeToUse)
             p1 == [pg EXCEPT !.currentBatchFileIndex = b.i, !.processing = TRUE,
                              !.error = NoError, !.currentStatistics = NoStatistics]
             b1 == [b EXCEPT !.attempted = Append(@, b.i)]
         IN IF ~isValidDate(startDateTime)
            THEN LET a == AfterFile([p1 EXCEPT !.error = PageError(ErrPageDate,
                                                                   batchFile.file.name),
                                               !.processing = FALSE],
                                    b1, FALSE, "date")
                 IN LoopFrom(a.page, a.batch, Toast("Invalid Input"))
            ELSE [page  |-> p1,
                  batch |-> [b1 EXCEPT !.pc = "reading", !.startDateTime = startDateTime],
                  toast |-> t]

\* the submit button: handleBatchSubmit up to its first await
handleBatchSubmit ==
    /\ ~(page.processing \/ page.isBatchProcessing)
    /\ Len(page.selectedFiles) > 0
    /\ clock + Len(page.selectedFiles) <= MaxClock
    /\ LET r == LoopFrom([page EXCEPT !.isBatchProcessing = TRUE,
                                      !.batchProgress = Number(0, 1),
                                      !.currentBatchFileIndex = 0],
                         [IdleBatch EXCEPT !.n = Len(page.selectedFiles),
                                           !.before = Len(page.history)],
                         toast)
       IN /\ page' = r.page
          /\ batch' = r.batch
          /\ toast' = r.toast
    /\ UNCHANGED <<localStorage, clock>>
    /\ UNCHANGED download
    /\ UNCHANGED serverVars

\* processSingleFile, had it called countVisitors without awaiting it: the file counts
\* as done and the loop goes on to the next file while the call is in flight
FileReaderReturn_NoAwait(ok) ==
    /\ batch.pc = "reading"
    /\ LET started == [batch EXCEPT !.called = IF ok THEN Append(@, batch.i) ELSE @,
                                    !.inflight = IF ok THEN @ \cup {batch.i} ELSE @]
           a == AfterFile([page EXCEPT !.processing = FALSE], started, ok,
                          IF ok THEN "ok" ELSE "read")
           r == LoopFrom(a.page, a.batch, toast)
       IN /\ page' = r.page
          /\ batch' = r.batch
          /\ toast' = r.toast
    /\ UNCHANGED <<localStorage, clock>>
    /\ UNCHANGED download
    /\ UNCHANGED serverVars

\* processSingleFile 189-195: the FileReader has loaded the file (ok) or has failed
FileReaderReturn(ok) ==
    /\ batch.pc = "reading"
    /\ IF ok
       THEN /\ batch' = [batch EXCEPT !.pc = "counting",
                                       !.called = Append(@, batch.i),
                                       !.inflight = @ \cup {batch.i}]
            /\ UNCHANGED <<page, toast>>
       ELSE LET batchFile == page.selectedFiles[batch.i + 1]
                a == AfterFile([page EXCEPT !.error = PageError(ErrPageCount,
                                                                batchFile.file.name),
                                            !.processing = FALSE],
                               batch, FALSE, "read")
                r == LoopFrom(a.page, a.batch, Toast("Error"))
            IN /\ page' = r.page
               /\ batch' = r.batch
               /\ toast' = r.toast
    /\ UNCHANGED <<localStorage, clock>>
    /\ UNCHANGED download
    /\ UNCHANGED serverVars

\* processSingleFile 197-233: the await of countVisitors ends, the external model
\* having answered with out
CountVisitorsReturn(out) ==
    /\ batch.pc = "counting"
    /\ LET batchFile == page.selectedFiles[batch.i + 1]
           result == countVisitorsFlow(rev, page.selectedDirection, out)
           returned == [batch EXCEPT !.inflight = @ \ {batch.i}]
       IN IF result.threw
          THEN LET a == AfterFile([page EXCEPT !.error = PageError(ErrPageCount,
                                                                   batchFile.file.name),
                                               !.processing = FALSE],
                                  returned, FALSE, "model")
                   r == LoopFrom(a.page, a.batch, Toast("Error"))
               IN /\ page' = r.page
                  /\ batch' = r.batch
                  /\ toast' = r.toast
                  /\ UNCHANGED <<localStorage, clock>>
          ELSE LET newEntry == NewEntry(result, clock, batch.startDateTime,
                                        batchFile.file)
                   updatedHistory == PrependEntry(page.history, newEntry)
                   a == AfterFile([page EXCEPT !.currentStatistics = newEntry,
                                               !.history = updatedHistory,
                                               !.processing = FALSE],
                                  returned, TRUE, "ok")
                   r == LoopFrom(a.page, a.batch, Toast("Processing Complete"))
               IN /\ page' = r.page
                  /\ batch' = r.batch
                  /\ toast' = r.toast
                  /\ localStorage' = JSONStringify(updatedHistory)
                  /\ clock' = clock + 1
    /\ UNCHANGED download
    /\ UNCHANGED serverVars

\* the Clear History button, had it reached for the collection visitor_logs too
handleClearHistory_DropsStore ==
    /\ ~page.isBatchProcessing
    /\ page' = [page EXCEPT !.history = <<>>]
    /\ localStorage' = <<>>
    /\ toast' = Toast("History Cleared")
    /\ store' = <<>>
    /\ writer' = <<>>
    /\ UNCHANGED <<batch, clock, download, rev, dbReady, req>>

\* the Clear History button
handleClearHistory ==
    /\ ~page.isBatchProcessing
    /\ page' = [page EXCEPT !.history = <<>>]
    /\ localStorage' = <<>>
    /\ toast' = Toast("History Cleared")
    /\ UNCHANGED <<batch, clock>>
    /\ UNCHANGED download
    /\ UNCHANGED serverVars

-----------------------------------------------------------------------------
(* The page: numbers.  A JavaScript number is an IEEE 754 double; the counts of *)
(* the report are not negative, so a double is kept here as bits * 2^e, bits    *)
(* being the binary digits of an odd natural number, the first digit first,     *)
(* or as no digits for zero                                                      *)

\* the number of binary digits of the significand of a double
Precision == 53

Double(bits, e) == [bits |-> bits, e |-> e]

ZeroDouble == Double(<<>>, 0)

\* bits without its leading zeros
StripLeading(bits) ==
    IF \A k \in DOMAIN bits : bits[k] = 0 THEN <<>>
    ELSE LET first == CHOOSE k \in DOMAIN bits :
                        bits[k] = 1 /\ \A j \in 1..(k - 1) : bits[j] = 0
         IN SubSeq(bits, first, Len(bits))

\* the one representation of bits * 2^e in which the number of digits bits is odd
Canonical(bits, e) ==
    IF \A k \in DOMAIN bits : bits[k] = 0 THEN ZeroDouble
    ELSE LET b == StripLeading(bits)
             last == CHOOSE k \in DOMAIN b :
                       b[k] = 1 /\ \A j \in (k + 1)..Len(b) : b[j] = 0
         IN Double(SubSeq(b, 1, last), e + (Len(b) - last))

\* n zeros
Zeros(n) == [k \in 1..n |-> 0]

RECURSIVE BitsOf(_)
\* the binary digits of the natural number n
BitsOf(n) == IF n = 0 THEN <<>> ELSE Append(BitsOf(n \div 2), n % 2)

\* 2^LimbBits is the base in which long numbers are added: a significand has
\* four limbs
LimbBits == (Precision + 7) \div 4

RECURSIVE Pow2(_)
Pow2(k) == IF k = 0 THEN 1 ELSE 2 * Pow2(k - 1)

RECURSIVE ToNat(_)
\* the natural number of at most LimbBits binary digits
ToNat(bits) ==
    IF bits = <<>> THEN 0
    ELSE 2 * ToNat(SubSeq(bits, 1, Len(bits) - 1)) + bits[Len(bits)]

\* the j-th limb, from the right, of the number of digits bits
Limb(bits, j) ==
    LET hi == Len(bits) - (j - 1) * LimbBits
        lo == IF hi - LimbBits + 1 < 1 THEN 1 ELSE hi - LimbBits + 1
    IN IF hi < 1 THEN 0 ELSE ToNat(SubSeq(bits, lo, hi))

RECURSIVE AddLimbs(_, _, _, _)
\* the sums, not yet carried, of the limbs j..n of a and b, the lowest first
AddLimbs(a, b, j, n) ==
    IF j > n THEN <<>>
    ELSE LET rest == AddLimbs(a, b, j + 1, n)
             sum == Limb(a, j) + Limb(b, j)
         IN <<sum>> \o rest

RECURSIVE MoveCarries(_, _)
\* sums, a sequence of limb sums with the lowest first, with the carries moved up
MoveCarries(sums, carry) ==
    IF sums = <<>> THEN <<carry>>
    ELSE LET t == sums[1] + carry IN
         <<t % Pow2(LimbBits)>> \o MoveCarries(Tail(sums), t \div Pow2(LimbBits))

\* the binary digits of the sum of the natural numbers of digits a and b
AddBits(a, b) ==
    LET len == IF Len(a) >= Len(b) THEN Len(a) ELSE Len(b)
        n == (len + LimbBits - 1) \div LimbBits
        limbs == MoveCarries(AddLimbs(a, b, 1, n), 0)
        total == (n + 1) * LimbBits
    IN StripLeading([k \in 1..total |->
                        LET fromRight == total - k
                        IN (limbs[fromRight \div LimbBits + 1]
                              \div Pow2(fromRight % LimbBits)) % 2])

\* bits * 2^e rounded to the nearest double, a tie to the even significand
RoundToDouble(bits, e) ==
    LET b == StripLeading(bits) IN
    IF Len(b) <= Precision THEN Canonical(b, e)
    ELSE LET kept == SubSeq(b, 1, Precision)
             rest == SubSeq(b, Precision + 1, Len(b))
             sticky == \E k \in 2..Len(rest) : rest[k] = 1
             up == rest[1] = 1 /\ (sticky \/ kept[Precision] = 1)
         IN Canonical(IF up THEN AddBits(kept, <<1>>) ELSE kept, e + Len(rest))

\* x + y of two doubles that are not negative
AddDouble(x, y) ==
    IF x = ZeroDouble THEN y
    ELSE IF y = ZeroDouble THEN x
    ELSE LET m == IF x.e <= y.e THEN x.e ELSE y.e IN
         RoundToDouble(AddBits(x.bits \o Zeros(x.e - m), y.bits \o Zeros(y.e - m)), m)

RECURSIVE PowMod(_, _)
\* 2^k modulo d
PowMod(k, d) ==
    IF k = 0 THEN 1 % d
    ELSE LET h == PowMod(k \div 2, d) IN
         (h * h * (IF k % 2 = 1 THEN 2 ELSE 1)) % d

\* the binary digits computed of a quotient behind the point
FractionDigits == 2 * Precision

\* the double a number of the JSON text stands for: n / d, correctly rounded
\* (the counts are not negative and not below 2^-Precision when they are not zero)
DoubleOf(v) ==
    LET r == v.num % v.den
        rem(k) == (r * PowMod(k, v.den)) % v.den
        fraction == [k \in 1..FractionDigits |-> (2 * rem(k - 1)) \div v.den]
        sticky == IF rem(FractionDigits) # 0 THEN 1 ELSE 0
    IN RoundToDouble(BitsOf(v.num \div v.den) \o fraction \o <<sticky>>,
                     0 - (FractionDigits + 1))

-----------------------------------------------------------------------------
(* The page: the history under LOCAL_STORAGE_KEY and the hourly report *)

\* a string that is no date, such as "yesterday"
OddIsoStr == [given |-> TRUE, shaped |-> FALSE, y |-> 0, mo |-> 0, d |-> 0, h |-> 0, mi |-> 0]

\* new Date(s) of a string
NewDate(s) == parseISO(s)

\* new Date(item.timestamp): the wall clock reads 14:30 of 2024-07-12 at instant 0
DateOfClock(t) ==
    [valid |-> TRUE, y |-> 2024, mo |-> 7, d |-> 12, h |-> 14, mi |-> 30 + t]

\* the entries of the stored history as the effect at mount revives them, 70-74
Revive(stored) ==
    [k \in DOMAIN stored |->
        [stored[k] EXCEPT !.recordingStartDateTime =
            IF @.given THEN NewDate(@) ELSE DateOfClock(stored[k].timestamp)]]

\* Array.prototype.sort, which is stable, with a comparator key(a) - key(b);
\* key[k] is the key of seq[k]
SortBy(seq, key) ==
    LET pos(i) == 1 + Cardinality({j \in DOMAIN seq :
                        \/ key[j] < key[i]
                        \/ (key[j] = key[i] /\ j < i)})
    IN [p \in DOMAIN seq |-> seq[CHOOSE i \in DOMAIN seq : pos(i) = p]]

\* the comparator of memoizedHistory: the newest entry first
Newest(entry) == 0 - entry.timestamp

\* memoizedHistory: the render sorts the array of the state in place
memoizedHistory(history) ==
    SortBy(history, [k \in DOMAIN history |-> Newest(history[k])])

\* the state of the page after mount and render with stored under LOCAL_STORAGE_KEY
Mounted(stored) == [InitialPage EXCEPT !.history = memoizedHistory(Revive(stored))]

\* format(date, "yyyy-MM-dd")
FormatDate(dt) == [y |-> dt.y, mo |-> dt.mo, d |-> dt.d]

\* aggregateHourlyData, had it left no entry out
Skipped_Never(entry) == FALSE

\* the test of aggregateHourlyData for an entry that is left out, 304; null and
\* Invalid Date both fail it
Skipped(entry) == ~isValidDate(entry.recordingStartDateTime)

\* the totals of aggregateHourlyData, 317-321
AddCount(slot, entry) ==
    IF entry.countedDirection = "entering"
    THEN [slot EXCEPT !.entering = AddDouble(@, DoubleOf(entry.visitorCount))]
    ELSE IF entry.countedDirection = "exiting"
    THEN [slot EXCEPT !.exiting = AddDouble(@, DoubleOf(entry.visitorCount))]
    ELSE slot

\* the body of the forEach of aggregateHourlyData, 303-322.  aggregated is the
\* object of the dates in the order in which its keys were added, and so is the
\* object slots of every date
AggregateEntry(aggregated, entry) ==
    LET start == entry.recordingStartDateTime
        entryDate == FormatDate(start)
        hour == start.h
        withDate == IF \E k \in DOMAIN aggregated : aggregated[k].date = entryDate
                    THEN aggregated
                    ELSE Append(aggregated, [date |-> entryDate, slots |-> <<>>])
        di == CHOOSE k \in DOMAIN withDate : withDate[k].date = entryDate
        slots == withDate[di].slots
        withSlot == IF \E k \in DOMAIN slots : slots[k].timeSlot = hour
                    THEN slots
                    ELSE Append(slots, [timeSlot |-> hour, entering |-> ZeroDouble,
                                        exiting |-> ZeroDouble])
        si == CHOOSE k \in DOMAIN withSlot : withSlot[k].timeSlot = hour
    IN IF Skipped(entry) THEN aggregated
       ELSE [withDate EXCEPT ![di].slots =
                [withSlot EXCEPT ![si] = AddCount(@, entry)]]

RECURSIVE AggregateFrom(_, _, _)
\* the forEach of aggregateHourlyData from the k-th entry on
AggregateFrom(historyData, k, aggregated) ==
    IF k > Len(historyData) THEN aggregated
    ELSE AggregateFrom(historyData, k + 1, AggregateEntry(aggregated, historyData[k]))

\* aggregateHourlyData, 300-324
aggregateHourlyData(historyData) == AggregateFrom(historyData, 1, <<>>)

\* the comparator of sortedDates: dateParse(a, "yyyy-MM-dd", new Date()).getTime()
DateTime(dateEntry) ==
    (dateEntry.date.y * 12 + (dateEntry.date.mo - 1)) * 31 + (dateEntry.date.d - 1)

\* the comparator of sortedTimeSlots: parseInt(a.split(':')[0])
SlotHour(slot) == slot.timeSlot

\* the line of one bucket, 358.  A number is written as the shortest text that
\* reads back as the same double, so the text of a total is kept as the double
CsvRow(date, slot) ==
    [date |-> date, timeSlot |-> slot.timeSlot, entering |-> slot.entering,
     exiting |-> slot.exiting]

RECURSIVE RowsFrom(_, _)
\* the lines of the dates k, k + 1, ... of sortedDates, 348-360
RowsFrom(sortedDates, k) ==
    IF k > Len(sortedDates) THEN <<>>
    ELSE LET slots == sortedDates[k].slots
             sortedTimeSlots == SortBy(slots, [j \in DOMAIN slots |-> SlotHour(slots[j])])
         IN
         [j \in DOMAIN sortedTimeSlots |-> CsvRow(sortedDates[k].date, sortedTimeSlots[j])]
           \o RowsFrom(sortedDates, k + 1)

\* csvRows without its first line, 346-360
CsvRows(aggregatedData) ==
    RowsFrom(SortBy(aggregatedData,
                    [k \in DOMAIN aggregatedData |-> DateTime(aggregatedData[k])]), 1)

CsvHeader == "Date,Time Slot,Entering Visitors,Exiting Visitors"

\* the Download Hourly Report button, 326-379; it is disabled while a batch runs, 575
handleDownloadCSV ==
    /\ ~page.isBatchProcessing
    /\ LET aggregatedData == aggregateHourlyData(page.history) IN
       IF Len(page.history) = 0
       THEN /\ toast' = Toast("No Data")
            /\ UNCHANGED download
       ELSE IF Len(aggregatedData) = 0
       THEN /\ toast' = Toast("No Data for Report")
            /\ UNCHANGED download
       ELSE /\ toast' = Toast("CSV Downloaded")
            /\ download' = [header |-> CsvHeader, rows |-> CsvRows(aggregatedData)]
    /\ UNCHANGED <<page, localStorage, batch, clock>>
    /\ UNCHANGED serverVars

-----------------------------------------------------------------------------
(* The single-file revision of the page, src/unnamed/part_008: one video at a time,
   no recording time and no direction.  Its React state is kept in page, its running
   handleSubmit in batch. *)

\* no StatisticsData of the single-file revision
NoSingleStatistics == [visitorCount |-> NaN, id |-> NoId, timestamp |-> 0, videoFileName |-> Null]

ErrSingleLarge == "File is too large. Please upload a video under 50MB."

ErrSingleType == "Invalid file type. Please upload a video file."

ErrSingleCount == "Failed to count visitors"

\* the state after mount with nothing in localStorage, part_008 24-30
InitialSinglePage ==
    [videoFile |-> NoFile, processing |-> FALSE, currentStatistics |-> NoSingleStatistics,
     error |-> Null, history |-> <<>>]

\* no handleSubmit is running.  history and videoFile are the values of the render
\* in which the running handleSubmit was created: its closure reads these
IdleSubmit == [pc |-> "idle", history |-> <<>>, videoFile |-> NoFile]

\* Number(output) of the flow of this revision (src/src/ai/flows/count-visitors.ts,
\* 187): null becomes 0, an object becomes NaN
ToNumber(out) == IF ~out.present THEN Number(0, 1) ELSE NaN

\* handleFileChange of part_008, 67-88; the input is disabled while processing, 179
handleFileChangeSingle(file) ==
    /\ ~page.processing
    /\ page' = IF ~file.present
               THEN [page EXCEPT !.error = Null, !.currentStatistics = NoSingleStatistics,
                                 !.videoFile = NoFile]
               ELSE IF file.size > 50 * 1024 * 1024
               THEN [page EXCEPT !.error = ErrSingleLarge,
                                 !.currentStatistics = NoSingleStatistics,
                                 !.videoFile = NoFile]
               ELSE IF ~StartsWithVideo(file.type)
               THEN [page EXCEPT !.error = ErrSingleType,
                                 !.currentStatistics = NoSingleStatistics,
                                 !.videoFile = NoFile]
               ELSE [page EXCEPT !.error = Null, !.currentStatistics = NoSingleStatistics,
                                 !.videoFile = file]
    /\ UNCHANGED <<localStorage, batch, toast, clock, download>>
    /\ UNCHANGED serverVars

\* handleSubmit of part_008 up to its first await, 90-106; the button is disabled
\* while processing and without a file, 196
handleSubmit ==
    /\ ~page.processing
    /\ page.videoFile.present
    /\ clock <= MaxClock
    /\ batch.pc = "idle"
    /\ page' = [page EXCEPT !.processing = TRUE, !.error = Null,
                            !.currentStatistics = NoSingleStatistics]
    /\ batch' = [pc |-> "reading", history |-> page.history, videoFile |-> page.videoFile]
    /\ UNCHANGED <<localStorage, toast, clock, download>>
    /\ UNCHANGED serverVars

\* the catch and the finally of handleSubmit, 130-141
SubmitFailed ==
    /\ page' = [page EXCEPT !.error = ErrSingleCount, !.processing = FALSE]
    /\ toast' = Toast("Processing Error")
    /\ batch' = IdleSubmit
    /\ UNCHANGED <<localStorage, clock>>

\* the FileReader of handleSubmit calls onload or onerror, 102-107
FileReaderReturnSingle(ok) ==
    /\ batch.pc = "reading"
    /\ IF ok
       THEN /\ batch' = [batch EXCEPT !.pc = "counting"]
            /\ UNCHANGED <<page, localStorage, toast, clock>>
       ELSE SubmitFailed
    /\ UNCHANGED download
    /\ UNCHANGED serverVars

\* countVisitors returns to handleSubmit or throws, 109-141
CountVisitorsReturnSingle(out, thrown) ==
    /\ batch.pc = "counting"
    /\ IF thrown \/ ToNumber(out) = NaN
       THEN SubmitFailed
       ELSE LET newEntry == [visitorCount |-> ToNumber(out), id |-> clock,
                             timestamp |-> clock, videoFileName |-> batch.videoFile.name]
                updatedHistory == <<newEntry>> \o batch.history
            IN /\ page' = [page EXCEPT !.currentStatistics = newEntry,
                                       !.history = updatedHistory,
                                       !.processing = FALSE]
               /\ localStorage' = updatedHistory
               /\ toast' = Toast("Processing Complete")
               /\ batch' = IdleSubmit
               /\ clock' = clock + 1
    /\ UNCHANGED download
    /\ UNCHANGED serverVars

\* handleClearHistory of part_008, 144-151; the button is there while the history
\* has entries, 258, and it is not disabled while processing, 270
handleClearHistorySingle ==
    /\ Len(page.history) > 0
    /\ page' = [page EXCEPT !.history = <<>>]
    /\ localStorage' = <<>>
    /\ toast' = Toast("History Cleared")
    /\ UNCHANGED <<batch, clock, download>>
    /\ UNCHANGED serverVars

-----------------------------------------------------------------------------
(* The specification of the Upload Endpoint and the History Store *)

\* the revisions of the endpoint that write to the History Store
StoreRevisions == {"R2", "R3", "R4"}

Init ==
    /\ rev \in Revisions
    /\ dbReady \in BOOLEAN
    /\ req = [i \in Reqs |-> Idle]
    /\ store = <<>>
    /\ writer = <<>>
    /\ clock = 1
    /\ page = InitialPage
    /\ localStorage = <<>>
    /\ batch = IdleBatch
    /\ toast = NoToast
    /\ download = NoDownload

Next ==
    \E i \in Reqs :
        \/ \E inp \in Inputs : Receive(i, inp)
        \/ \E out \in ModelOutputs : ModelReturn(i, out)
        \/ \E ok \in BOOLEAN : StoreReturn(i, ok)

Spec == Init /\ [][Next]_vars

-----------------------------------------------------------------------------
(* The specification of the page *)

\* the values of the fallback date and time inputs
FormDates == {defaultRecordingDate, NoDateStr}

FormTimes == {defaultRecordingTime, NoTimeStr}

InitPage ==
    /\ Init
    /\ rev = "R3"
    /\ dbReady

NextPage ==
    \/ \E files \in FileLists : handleFileChange(files)
    \/ \E value \in FormDates : setFormRecordingDate(value)
    \/ \E value \in FormTimes : setFormRecordingTime(value)
    \/ \E value \in DirectionEnum(rev) : setSelectedDirection(value)
    \/ handleBatchSubmit
    \/ \E ok \in BOOLEAN : FileReaderReturn(ok)
    \/ \E out \in PageOutputs : CountVisitorsReturn(out)
    \/ handleClearHistory

SpecPage == InitPage /\ [][NextPage]_vars

\* the page when every FileReader and every call of countVisitors returns in the end
SpecPageLive ==
    /\ InitPage
    /\ [][NextPage]_vars
    /\ WF_vars(\E ok \in BOOLEAN : FileReaderReturn(ok))
    /\ WF_vars(\E out \in PageOutputs : CountVisitorsReturn(out))

\* the page with files of many names: the user picks files and runs batches, while
\* the external model gives no output

\* the number of files the user picks at once
MaxParserFiles == 1

ParserFiles == {VideoFile(n, <<"video", "mp4">>, 1024) : n \in FileNames}

ParserFileLists == SeqsUpTo(ParserFiles, MaxParserFiles)

ParserOutputs == {NoOutput}

NextParser ==
    \/ \E files \in ParserFileLists : handleFileChange(files)
    \/ \E value \in FormDates : setFormRecordingDate(value)
    \/ handleBatchSubmit
    \/ \E ok \in BOOLEAN : FileReaderReturn(ok)
    \/ \E out \in ParserOutputs : CountVisitorsReturn(out)

SpecParser == InitPage /\ [][NextParser]_vars

-----------------------------------------------------------------------------
(* The specification of the hourly report: the page is opened in a browser that
   holds a history under LOCAL_STORAGE_KEY, written by this revision of the page or by
   an earlier one, and the user downloads the report and clears the history *)

\* the number of entries of the stored history
MaxEntries == 3

\* an entry of the stored history
Stored(count, direction, now, start) ==
    [visitorCount |-> count, countedDirection |-> direction, id |-> now,
     timestamp |-> now, recordingStartDateTime |-> start, videoFileName |-> Clip.name]

\* the entries a stored history is made of: counts with a fraction (the output schema
\* asks for a number only), an earlier date, the direction "both" of the revision
\* whose enum has it (src/unnamed/part_001), a start time that is no date, and an
\* entry of the single-file revision (src/unnamed/part_008), which has neither a start
\* time nor a direction
StoredEntries ==
    {Stored(Number(1, 10), "entering", 1, IsoStr(2024, 7, 12, 14, 30)),
     Stored(Number(2, 10), "entering", 2, IsoStr(2024, 7, 12, 14, 5)),
     Stored(Number(3, 10), "entering", 1, IsoStr(2024, 7, 12, 14, 59)),
     Stored(Number(7, 1), "exiting", 3, IsoStr(2024, 7, 11, 9, 0)),
     Stored(Number(2, 1), "both", 4, IsoStr(2024, 7, 12, 8, 15)),
     Stored(Number(7, 1), "entering", 5, OddIsoStr),
     Stored(Number(5, 1), Null, 6, NoIsoStr)}

RECURSIVE DistinctSeqsUpTo(_, _)
\* the sequences of at most n elements of S, no element twice
DistinctSeqsUpTo(S, n) ==
    IF n = 0 THEN {<<>>}
    ELSE LET shorter == DistinctSeqsUpTo(S, n - 1) IN
         shorter \cup
           UNION {{Append(q, x) : x \in S \ {q[k] : k \in DOMAIN q}} : q \in shorter}

StoredHistories == DistinctSeqsUpTo(StoredEntries, MaxEntries)

InitExport ==
    /\ rev = "R3"
    /\ dbReady = TRUE
    /\ req = [i \in Reqs |-> Idle]
    /\ store = <<>>
    /\ writer = <<>>
    /\ clock = 7
    /\ localStorage \in StoredHistories
    /\ page = Mounted(localStorage)
    /\ batch = IdleBatch
    /\ toast = NoToast
    /\ download = NoDownload

NextExport ==
    \/ handleDownloadCSV
    \/ handleClearHistory

SpecExport == InitExport /\ [][NextExport]_vars

-----------------------------------------------------------------------------
(* The specification of the single-file revision of the page *)

\* the files the user can pick, or none
SingleFiles == {NoFile, Clip, ClipAtCap, ClipOverCap, Untyped}

\* what the external model answers
SingleOutputs == {NoOutput, Output(Number(7, 1), "entering")}

InitSingle ==
    /\ rev = "R1"
    /\ dbReady = TRUE
    /\ req = [i \in Reqs |-> Idle]
    /\ store = <<>>
    /\ writer = <<>>
    /\ clock = 1
    /\ localStorage = <<>>
    /\ page = InitialSinglePage
    /\ batch = IdleSubmit
    /\ toast = NoToast
    /\ download = NoDownload

NextSingle ==
    \/ \E file \in SingleFiles : handleFileChangeSingle(file)
    \/ handleSubmit
    \/ \E ok \in BOOLEAN : FileReaderReturnSingle(ok)
    \/ \E out \in SingleOutputs : \E thrown \in BOOLEAN : CountVisitorsReturnSingle(out, thrown)
    \/ handleClearHistorySingle

SpecSingle == InitSingle /\ [][NextSingle]_vars

-----------------------------------------------------------------------------
(* The specification of the system: the Upload Endpoint, used by scripts, and the
   page, used in a browser, side by side.  The user of the page leaves the fallback
   date and time and the direction of the form as they are. *)

\* the uploads of the scripts
SystemInputs == {Base}

\* what the external model answers
SystemOutputs == {NoOutput, Output(Number(7, 1), "entering")}

\* the files the user picks
SystemFileLists == {<<>>, <<Clip>>, <<Clip, ClipOverCap>>}

InitSystem ==
    /\ Init
    /\ rev \in StoreRevisions
    /\ dbReady

NextSystem ==
    \/ \E i \in Reqs : \E inp \in SystemInputs : Receive(i, inp)
    \/ \E i \in Reqs : \E out \in SystemOutputs : ModelReturn(i, out)
    \/ \E i \in Reqs : \E ok \in BOOLEAN : StoreReturn(i, ok)
    \/ \E files \in SystemFileLists : handleFileChange(files)
    \/ handleBatchSubmit
    \/ \E ok \in BOOLEAN : FileReaderReturn(ok)
    \/ \E out \in SystemOutputs : CountVisitorsReturn(out)
    \/ handleClearHistory

SpecSystem == InitSystem /\ [][NextSystem]_vars

-----------------------------------------------------------------------------
(* Properties of the Upload Endpoint and the History Store *)

\* the positions of the store that request i wrote
WrittenBy(i) == {k \in DOMAIN store : writer[k] = i}

\* out is no usable structured payload: blocked or empty, or an object that is not
\* {visitorCount: number, countedDirection: one of the directions}
ModelCallFails(out) ==
    \/ ~out.present
    \/ out.visitorCount.kind # "number"
    \/ out.countedDirection \notin DirectionEnum(rev)

\* C1: whenever the external model's answer makes the Model Client fail (a blocked or
\* empty response, or an output that violates the output schema), the request ends in
\* that step with a 500 response and the History Store stays as it was: no record of
\* the request is in it, whichever of the two failures it was.
C1_ModelFailureIsServerError ==
    [][\A i \in Reqs : \A out \in ModelOutputs :
         (ModelReturn(i, out) /\ ModelCallFails(out))
            => /\ req'[i].pc = "done"
               /\ req'[i].status = 500
               /\ req'[i].call = "rejected"
               /\ store' = store
               /\ \A k \in DOMAIN store' : writer'[k] # i]_vars

\* C1 witness: under a revision that writes to the store, one request was answered
\* after a blocked response and another after a schema-violating output
C1_Witness ==
    /\ rev \in StoreRevisions
    /\ \E i, j \in Reqs :
        /\ req[i].pc = "done" /\ req[i].status = 500
        /\ req[i].messageFromServer = BlockedMessage
        /\ req[j].pc = "done" /\ req[j].status = 500
        /\ req[j].messageFromServer = SchemaMessage
        /\ store = <<>>

\* C2 (as claimed): under the revisions that write to the store, a request answered
\* with 200 has a record in the History Store, and the response carries the id the
\* store gave that record.
C2_SuccessMeansPersisted ==
    rev \in StoreRevisions =>
        \A i \in Reqs :
            req[i].status = 200 =>
                /\ req[i].id # NoId
                /\ \E k \in WrittenBy(i) : store[k].id = req[i].id

\* C3: a request has at most one record in the History Store; it has one exactly when
\* its model call and its store write have both succeeded; so a record of a request
\* is never there before the model call of that request has returned successfully.
C3_OneRecordAfterModelSuccess ==
    \A i \in Reqs :
        /\ Cardinality(WrittenBy(i)) <= 1
        /\ Cardinality(WrittenBy(i)) = 1
              <=> (req[i].call = "fulfilled" /\ req[i].write = "fulfilled")
        /\ req[i].call \in {"none", "inflight", "rejected"} => WrittenBy(i) = {}

\* C3 witness: one request has written its record, and another, whose model call
\* succeeded as well but whose write failed, has none
C3_Witness ==
    \E i, j \in Reqs :
        /\ Cardinality(WrittenBy(i)) = 1
        /\ req[i].call = "fulfilled" /\ req[i].write = "fulfilled"
        /\ req[j].call = "fulfilled" /\ req[j].write = "rejected"
        /\ WrittenBy(j) = {}

\* the error messages with which the endpoint turns a request down for its content
ValidationErrors ==
    {ErrNoFile, ErrNoDirection, ErrDirection, ErrNotVideo, ErrTooLarge, ErrJson,
     ErrDateFormat, ErrFileRequired, ErrDirectionRequired, ErrMissingFields,
     ErrDateParse}

\* C4 (as claimed): a request turned down for an input-validation reason was turned
\* down before any model call, wrote nothing, and was answered 400, 413 or 415.
C4_ValidationIsClientError ==
    \A i \in Reqs :
        req[i].error \in ValidationErrors =>
            /\ req[i].call = "none"
            /\ WrittenBy(i) = {}
            /\ req[i].status \in {400, 413, 415}

\* C5 (as claimed): a multipart upload whose video is larger than 50 MB is answered
\* 413 on arrival, with no model call and the store unchanged; a video of exactly
\* 50 MB is not answered 413.
C5_OversizeIs413 ==
    [][\A i \in Reqs : \A inp \in Inputs :
         (Receive(i, inp) /\ inp.contentType = "multipart/form-data"
                          /\ inp.videoFile.present)
            => /\ inp.videoFile.size > 50 * 1024 * 1024
                    => /\ req'[i].status = 413
                       /\ req'[i].call = "none"
                       /\ store' = store
               /\ inp.videoFile.size = 50 * 1024 * 1024
                    => req'[i].status # 413]_vars

\* the date/time fields the revision reads are there and are no calendar timestamp
DateTimeInvalid(inp) ==
    IF rev = "R4"
    THEN /\ inp.recordingTimestamp.given
         /\ ~(inp.recordingTimestamp.shaped
              /\ ValidCalendarDate(inp.recordingTimestamp.y, inp.recordingTimestamp.mo,
                                   inp.recordingTimestamp.d))
    ELSE /\ inp.recordingDate.given /\ inp.recordingTime.given
         /\ ~(inp.recordingDate.shaped /\ inp.recordingTime.shaped
              /\ ValidCalendarDate(inp.recordingDate.y, inp.recordingDate.mo,
                                   inp.recordingDate.d))

\* C6 (as claimed): under the revisions that store a recording time, a request whose
\* date/time fields are no valid calendar timestamp is turned down on arrival with a
\* client error, so no record with a null recordingStartDateTime stands in for it.
C6_InvalidDateIsRejected ==
    [][\A i \in Reqs : \A inp \in Inputs :
         (Receive(i, inp) /\ rev \in StoreRevisions /\ DateTimeInvalid(inp))
            => /\ req'[i].pc = "done"
               /\ req'[i].status \in 400..499]_vars

\* C7: no step of the system, of the endpoint or of the page, removes or changes a
\* record of the History Store: the store only grows at its end.  Clear History
\* empties the history of the page and its localStorage entry and leaves the store
\* as it is.
C7_StoreIsAppendOnly ==
    [][/\ Len(store') >= Len(store)
       /\ \A k \in DOMAIN store : store'[k] = store[k]
       /\ handleClearHistory => /\ store' = store
                                /\ page'.history = <<>>
                                /\ localStorage' = <<>>]_vars

\* C7 witness: the store holds a record, the page has counted a file of its own, and
\* Clear History has then emptied the history of the page
C7_Witness ==
    /\ Len(store) >= 1
    /\ toast.title = "History Cleared"
    /\ page.currentStatistics # NoStatistics
    /\ page.history = <<>>
    /\ localStorage = <<>>

\* C8 (as claimed): every record of the History Store has a visitorCount that is a
\* non-negative integer.
C8_VisitorCountIsNatural ==
    \A k \in DOMAIN store :
        /\ IsInteger(store[k].visitorCount)
        /\ IsNonNegative(store[k].visitorCount)

\* C9: two requests that both succeeded (answered 200 after their write succeeded)
\* have two records in the History Store, with two ids, whatever the two requests
\* carried: no two records of the store share an id and none is merged with another.
C9_NoDeduplication ==
    /\ \A k1, k2 \in DOMAIN store : k1 # k2 => store[k1].id # store[k2].id
    /\ \A i, j \in Reqs :
         (i # j /\ req[i].status = 200 /\ req[i].write = "fulfilled"
                /\ req[j].status = 200 /\ req[j].write = "fulfilled")
            => /\ req[i].id # req[j].id
               /\ \E k1 \in WrittenBy(i) : \E k2 \in WrittenBy(j) :
                    /\ k1 # k2
                    /\ store[k1].id = req[i].id
                    /\ store[k2].id = req[j].id

\* C9 witness: the store holds two records that agree in file name, metadata and count
C9_Witness ==
    /\ Len(store) = 2
    /\ store[1].id # store[2].id
    /\ writer[1] # writer[2]
    /\ [store[1] EXCEPT !.id = NoId, !.processingTimestamp = 0]
         = [store[2] EXCEPT !.id = NoId, !.processingTimestamp = 0]
    /\ \A i \in Reqs : req[i].status = 200

\* C10: while a batch runs, the files done so far are counted once each, as a success
\* or as a failure, the failures being the files that have failed, and the history
\* has grown by one entry per success.  When a batch of n files of which m failed has
\* finished, its summary reports n - m succeeded and m failed, which add up to n, and
\* the history has grown by n - m entries.
C10_BatchSummary ==
    /\ batch.pc # "idle" =>
          /\ batch.successCount + batch.errorCount = batch.i
          /\ batch.errorCount = batch.failed
          /\ Len(page.history) - batch.before = batch.successCount
    /\ (batch.pc = "idle" /\ batch.n > 0 /\ toast.title = "Batch Processing Finished") =>
          /\ toast.successCount + toast.errorCount = batch.n
          /\ toast.errorCount = batch.failed
          /\ toast.successCount = batch.n - batch.failed
          /\ batch.added = batch.n - batch.failed

\* C10 witness: a batch of two files, one of which failed, has finished
C10_Witness ==
    /\ batch.pc = "idle"
    /\ toast = SummaryToast(1, 1)
    /\ batch.n = 2
    /\ batch.failed = 1
    /\ batch.added = 1
    /\ Len(page.history) >= 1

\* the sequence q of numbers is strictly increasing
Increasing(q) == \A a, b \in DOMAIN q : a < b => q[a] < q[b]

\* C11: during a batch at most one call of countVisitors is in flight, and it is the
\* call for the file the loop stands at; the calls were started in the order of the
\* selection, each file at most once; and a step that starts a call starts it when no
\* call is in flight, that is after every earlier call has returned.
C11_OneCallInFlight ==
    /\ [](/\ Cardinality(batch.inflight) <= 1
          /\ batch.inflight # {} => (batch.pc = "counting" /\ batch.inflight = {batch.i})
          /\ batch.pc = "counting" => batch.inflight = {batch.i}
          /\ Increasing(batch.called)
          /\ \A k \in DOMAIN batch.called : batch.called[k] \in 0..(batch.n - 1))
    /\ [][Len(batch'.called) > Len(batch.called) /\ batch.pc # "idle"
             => /\ batch.inflight = {}
                /\ batch'.called = Append(batch.called, batch.i)]_vars

\* C11 witness: the call for the second file is in flight, that for the first one
\* having returned
C11_Witness ==
    /\ batch.called = <<0, 1>>
    /\ batch.inflight = {1}
    /\ batch.pc = "counting"

\* the indices 0 .. n-1 in order
Indices(n) == [k \in 1..n |-> k - 1]

\* C12: while a batch runs, the files handed to processSingleFile are the files up to
\* the one the loop stands at, each once and in order, whatever became of the files
\* before it; when a batch of n files has finished, each of its n files was handed
\* to processSingleFile exactly once, however many of them failed.
C12_EveryFileAttemptedOnce ==
    /\ batch.pc # "idle" => batch.attempted = Indices(batch.i + 1)
    /\ (batch.pc = "idle" /\ batch.n > 0) => batch.attempted = Indices(batch.n)

\* C12 witness: a batch of two files has finished; the first file failed at the
\* FileReader, the second was attempted all the same and was counted
C12_Witness ==
    /\ batch.pc = "idle"
    /\ batch.n = 2
    /\ batch.attempted = <<0, 1>>
    /\ batch.called = <<1>>
    /\ batch.failed = 1
    /\ batch.added = 1
    /\ toast = SummaryToast(1, 1)

\* the number v is the percentage of done out of n
IsPercentage(v, done, n) == v.kind = "number" /\ v.num * n = done * 100 * v.den

\* v is at most w
AtMost(v, w) == v.num * w.den <= w.num * v.den

\* C13: while a batch of n files runs, the progress of the page is the percentage of
\* the files whose processing has finished, out of n, and the current-file index is
\* the index of the file being processed, which lies in 0..n-1; when the batch has
\* finished the progress is 100 and the index still lies in 0..n-1; and no step
\* within a batch lowers the progress.
C13_ProgressIsFinishedOverTotal ==
    /\ [](/\ batch.pc # "idle" =>
               /\ IsPercentage(page.batchProgress, batch.i, batch.n)
               /\ page.currentBatchFileIndex = batch.i
               /\ batch.i \in 0..(batch.n - 1)
          /\ (batch.pc = "idle" /\ batch.n > 0) =>
               /\ IsPercentage(page.batchProgress, batch.n, batch.n)
               /\ page.currentBatchFileIndex \in 0..(batch.n - 1))
    /\ [][(batch.pc # "idle" /\ batch'.n = batch.n /\ batch'.summaries >= batch.summaries)
             => AtMost(page.batchProgress, page'.batchProgress)]_vars

\* C13 witness: the second of two files is in flight and the progress stands at 50
C13_Witness ==
    /\ batch.pc = "counting"
    /\ batch.n = 2
    /\ batch.i = 1
    /\ page.currentBatchFileIndex = 1
    /\ page.batchProgress = Number(100, 2)

\* the state of the page right after a batch: both flags down, nothing selected, one
\* summary reported and shown
BatchFinished ==
    /\ batch.pc = "idle"
    /\ ~page.isBatchProcessing
    /\ ~page.processing
    /\ page.selectedFiles = <<>>
    /\ batch.summaries = 1
    /\ toast = SummaryToast(batch.n - batch.failed, batch.failed)

\* C14: if every FileReader and every call of countVisitors returns in the end, a
\* batch that waits for one of them leads to the state right after the batch: the
\* batch flag and the per-file flag are false, the selection is empty and exactly one
\* summary, with the succeeded and the failed count, has been reported.  No batch
\* reports more than one summary, and none before its end.
C14_BatchTerminates ==
    /\ [](batch.summaries <= 1 /\ (batch.pc # "idle" => batch.summaries = 0))
    /\ (batch.pc # "idle") ~> BatchFinished

\* C14 witness: a batch of two files, which waited for the model, has finished
C14_Witness ==
    /\ BatchFinished
    /\ batch.n = 2
    /\ Len(batch.called) >= 1

\* the timestamp a file name carries in one of the supported patterns, if it is a
\* date and a time of the calendar: what the Metadata Parser is to return for it
Carried(name) ==
    CASE name \in {"20240712_143000.mp4", "2024-07-12_14-30-00.mp4",
                   "cam_2024_07_12 14:30:00.mov"} ->
           [date |-> DateStr(2024, 7, 12), time |-> TimeStr(14, 30)]
      [] name = "20240229_235959.mp4" ->
           [date |-> DateStr(2024, 2, 29), time |-> TimeStr(23, 59)]
      [] OTHER -> NoParse

C16_ParserReturnsCarriedTimestamp ==
    \A k \in DOMAIN page.selectedFiles :
        LET batchFile == page.selectedFiles[k]
            carried == Carried(batchFile.file.name)
        IN carried # NoParse =>
             /\ batchFile.parsedDate = carried.date
             /\ batchFile.parsedTime = carried.time

\* C17: a selected file whose name carries no supported timestamp, or one that is no
\* date and time of the calendar, has neither a parsed date nor a parsed time; no
\* selected file has only one of the two; and the parser fails on no name: every
\* file picked is in the selection once handleFileChange has run.
C17_ParserReturnsNothingOtherwise ==
    /\ [](\A k \in DOMAIN page.selectedFiles :
            LET batchFile == page.selectedFiles[k] IN
            /\ Carried(batchFile.file.name) = NoParse
                 => (batchFile.parsedDate = NoDateStr /\ batchFile.parsedTime = NoTimeStr)
            /\ batchFile.parsedDate.given <=> batchFile.parsedTime.given)
    /\ [][\A files \in ParserFileLists :
            handleFileChange(files) =>
                /\ Len(page'.selectedFiles) = Len(files)
                /\ \A k \in DOMAIN files : page'.selectedFiles[k].file = files[k]]_vars

\* C17 witness: the files with month 13, with 30 February, with 29 February 2023,
\* with hour 25 and with no timestamp have each been selected, with no parsed value
C17_Witness ==
    /\ Len(page.selectedFiles) = 1
    /\ page.selectedFiles[1].file.name \in
          {"20241312_143000.mp4", "20240230_143000.mp4", "20230229_120000.mp4",
           "20240712_256000.mp4"}
    /\ page.selectedFiles[1].parsedDate = NoDateStr
    /\ page.selectedFiles[1].parsedTime = NoTimeStr
    /\ Match(Chars(page.selectedFiles[1].file.name), Patterns[1]).matched

\* C18: when the model answers with an output its schema accepts and whose
\* countedDirection is not the requested direction, the call of the Model Client is
\* fulfilled with the visitorCount and the countedDirection of that output, and a record
\* written for the request carries that countedDirection, not the requested direction.
C18_DirectionMismatchSucceeds ==
    /\ [][\A i \in Reqs, out \in ModelOutputs :
            (/\ ModelReturn(i, out)
             /\ out.present
             /\ OutputSchemaAccepts(rev, out)
             /\ out.countedDirection # req[i].l.direction)
            => /\ req'[i].call = "fulfilled"
               /\ req'[i].pc \in {"awaitStore", "done"}
               /\ req'[i].pc = "awaitStore" \/ rev = "R1"
                    => /\ req'[i].l.visitorCount = out.visitorCount
                       /\ req'[i].l.countedDirection = out.countedDirection
                       /\ req'[i].l.direction = req[i].l.direction]_vars
    /\ [][\A i \in Reqs :
            StoreReturn(i, TRUE)
            => /\ Len(store') = Len(store) + 1
               /\ store'[Len(store')].countedDirection = req[i].l.countedDirection
               /\ store'[Len(store')].visitorCount = req[i].l.visitorCount]_vars

\* C18 witness: a request for "entering" has been answered 200 and its record says
\* "exiting", as the model did
C18_Witness ==
    \E k \in DOMAIN store :
        /\ req[writer[k]].l.direction = "entering"
        /\ req[writer[k]].call = "fulfilled"
        /\ req[writer[k]].status = 200
        /\ store[k].countedDirection = "exiting"
        /\ store[k].visitorCount = Number(3, 2)

\* the request inp passes validation under revision r: the endpoint accepts it and
\* its direction is one the Model Client takes
PassesValidation(r, inp) ==
    /\ Parse(r, inp).status = 0
    /\ InputSchemaAccepts(r, Parse(r, inp).l.direction)

\* C19: a request that passes validation sends one request to the external model on
\* arrival, and no request of the endpoint sends another one later, whatever the
\* model answers and whether or not the write succeeds; the batch loop calls the
\* Model Client at most once for each file of the batch.
C19_OneModelCallNoRetry ==
    /\ [][\A i \in Reqs, inp \in SystemInputs :
            Receive(i, inp) /\ PassesValidation(rev, inp)
            => req[i].calls = 0 /\ req'[i].calls = 1]_vars
    /\ [][\A i \in Reqs :
            req[i].pc # "idle" => req'[i].calls = req[i].calls]_vars
    /\ [](\A i \in Reqs : req[i].pc = "done" /\ req[i].call # "none"
                              => req[i].calls = 1)
    /\ [](\A j, k \in DOMAIN batch.called : j # k => batch.called[j] # batch.called[k])
    /\ [](Len(batch.called) <= Len(batch.attempted))

\* C19 witness: a request was answered 500 after its only model call failed, another
\* was answered 200 after its only call, and a batch has finished in which the model
\* call of a file failed
C19_Witness ==
    /\ \E i, j \in Reqs :
          /\ req[i].pc = "done" /\ req[i].call = "rejected" /\ req[i].status = 500
          /\ req[i].calls = 1
          /\ req[j].pc = "done" /\ req[j].call = "fulfilled" /\ req[j].status = 200
          /\ req[j].calls = 1
    /\ batch.pc = "idle"
    /\ batch.summaries >= 1
    /\ batch.failed >= 1
    /\ Len(batch.called) = batch.n
    /\ batch.n >= 1

\* C20 (as claimed): when the model's response is blocked for safety reasons, the
\* request is answered 500, the details member of the response body carries the
\* block reason (the finish reason and the safety ratings), and no record is written.
C20_BlockedResponseCarriesReason ==
    [][\A i \in Reqs :
         ModelReturn(i, Blocked)
         => /\ req'[i].pc = "done"
            /\ req'[i].status = 500
            /\ req'[i].details \in {BlockedError(Blocked),
                                    UnexpectedError \o BlockedError(Blocked)}
            /\ store' = store]_vars

\* a well-formed upload that carries neither uploadSource nor locationName
Omitting == [Base EXCEPT !.uploadSource = Null, !.locationName = Null]

\* C21 (as claimed): an upload that is valid but for carrying neither uploadSource nor
\* locationName is accepted on arrival, with uploadSource "api", and the record
\* written for a request without a location name has locationName "N/A".
C21_OmittedFieldsGetDefaults ==
    /\ [][\A i \in Reqs :
            Receive(i, Omitting)
            => /\ req'[i].pc = "awaitModel"
               /\ rev \in StoreRevisions
                    => /\ req'[i].l.uploadSource = "api"
                       /\ req'[i].l.locationName \in {Null, "N/A"}]_vars
    /\ [][\A i \in Reqs :
            StoreReturn(i, TRUE) /\ req[i].l.locationName \in {Null, "N/A"}
            => /\ store'[Len(store')].locationName = "N/A"
               /\ store'[Len(store')].uploadSource = req[i].l.uploadSource]_vars

\* C22 (as claimed): a request whose Content-Type is neither multipart/form-data nor
\* application/json is answered 415 on arrival, without a model call and without a
\* write to the store.
C22_OtherContentTypeIs415 ==
    [][\A i \in Reqs : \A inp \in Inputs :
         (Receive(i, inp)
          /\ inp.contentType \notin {"multipart/form-data", "application/json"})
         => /\ req'[i].pc = "done"
            /\ req'[i].status = 415
            /\ req'[i].call = "none"
            /\ req'[i].write = "none"
            /\ store' = store]_vars

\* C25 (as claimed): no request holds a processing timestamp before its model call
\* has returned; the timestamp a request holds when it starts its write is the time
\* of that step; and the record written carries that timestamp.
C25_TimestampTakenAtWrite ==
    /\ [][\A i \in Reqs : \A inp \in Inputs :
            Receive(i, inp)
            => req'[i].l.processingTimestamp = NoLocals.processingTimestamp]_vars
    /\ [][\A i \in Reqs : \A out \in ModelOutputs :
            ModelReturn(i, out) /\ req'[i].pc = "awaitStore"
            => req'[i].l.processingTimestamp = clock]_vars
    /\ [][\A i \in Reqs :
            StoreReturn(i, TRUE)
            => store'[Len(store')].processingTimestamp
                 = req[i].l.processingTimestamp]_vars

\* C26 (as claimed): every record of the History Store has uploadSource "ui" or "api".
C26_UploadSourceIsUiOrApi ==
    \A k \in DOMAIN store : store[k].uploadSource \in {"ui", "api"}

\* C27 (as claimed): the processing timestamps of the records do not decrease in the
\* order in which the records were appended to the History Store.
C27_TimestampsFollowWriteOrder ==
    \A j, k \in DOMAIN store :
        j < k => store[j].processingTimestamp <= store[k].processingTimestamp

\* C28: in every interleaving of the requests at their two awaits, a step of one
\* request changes no other request; the model's answer to a request changes the
\* store not at all, and the end of its write appends one record made of that
\* request's own values and leaves the earlier records as they were; the store holds
\* one record for each request whose model call and write succeeded (under R3 and R4:
\* for each request answered 200) and none for any other request.
C28_RequestsDoNotInterfere ==
    /\ [][\A i \in Reqs :
            req'[i] # req[i] => \A j \in Reqs \ {i} : req'[j] = req[j]]_vars
    /\ [][\A i \in Reqs :
            (req[i].pc = "awaitModel" /\ req'[i] # req[i]) => store' = store]_vars
    /\ [][\A i \in Reqs :
            (req[i].pc = "awaitStore" /\ req'[i] # req[i])
            => store' = IF req'[i].write = "fulfilled"
                        THEN Append(store, [DataToSave(req[i].l) EXCEPT !.id = req'[i].id])
                        ELSE store]_vars
    /\ [](\A i \in Reqs :
            Cardinality(WrittenBy(i))
              = IF req[i].call = "fulfilled" /\ req[i].write = "fulfilled" THEN 1 ELSE 0)
    /\ [](Len(store) = Cardinality({i \in Reqs : req[i].write = "fulfilled"}))
    /\ [](rev \in {"R3", "R4"} =>
            \A i \in Reqs :
                req[i].pc = "done" => (req[i].status = 200 <=> WrittenBy(i) # {}))

\* C28 witness: two requests were in flight together, the one that arrived second
\* wrote first, both were answered 200 and each has its record
C28_Witness ==
    /\ rev \in {"R3", "R4"}
    /\ Len(writer) >= 2
    /\ writer[1] = 2
    /\ writer[2] = 1
    /\ req[1].status = 200
    /\ req[2].status = 200
    /\ store[1].id # store[2].id


-----------------------------------------------------------------------------
(* Properties of the hourly report *)

\* a report was downloaded, and the history it was made of is still there
Downloaded == download.header # Null /\ page.history # <<>>

\* the bucket of an entry with a valid start time
BucketOf(entry) ==
    <<FormatDate(entry.recordingStartDateTime), entry.recordingStartDateTime.h>>

RECURSIVE SumFrom(_, _, _)
\* acc + counts[k] + counts[k + 1] + ..., added from the left as JavaScript adds
SumFrom(counts, k, acc) ==
    IF k > Len(counts) THEN acc
    ELSE SumFrom(counts, k + 1, AddDouble(acc, counts[k]))

\* the sum of the visitorCount of the entries of history, in their order, that have
\* a valid start time in the bucket and the direction
BucketSum(history, bucket, direction) ==
    LET Counted(entry) == /\ isValidDate(entry.recordingStartDateTime)
                          /\ BucketOf(entry) = bucket
                          /\ entry.countedDirection = direction
        counted == SelectSeq(history, Counted)
    IN SumFrom([k \in DOMAIN counted |-> DoubleOf(counted[k].visitorCount)], 1, ZeroDouble)

\* history in another order
Permuted(history, f) == [k \in DOMAIN history |-> history[f[k]]]

\* C23: the rows of a downloaded report are in ascending order of date and, within a
\* date, of hour, one row per bucket, and they are the rows the export makes of the
\* same records in any other order
C23_ExportIsDeterministic ==
    Downloaded =>
        /\ \A i, j \in DOMAIN download.rows :
              i < j => LET a == download.rows[i]
                           b == download.rows[j]
                       IN \/ DateTime(a) < DateTime(b)
                          \/ (a.date = b.date /\ a.timeSlot < b.timeSlot)
        /\ \A f \in Permutations(DOMAIN page.history) :
              CsvRows(aggregateHourlyData(Permuted(page.history, f))) = download.rows

\* C24: in a downloaded report the buckets are exactly the dates and hours of the
\* entries with a valid start time, so an entry whose start time is null or no date
\* is in none of them, and the entering and the exiting total of every bucket are the
\* sums of the visitorCount of the bucket's entries of that direction
C24_HourlyTotals ==
    Downloaded =>
        /\ {<<r.date, r.timeSlot>> : r \in {download.rows[k] : k \in DOMAIN download.rows}}
             = {BucketOf(page.history[k]) :
                  k \in {j \in DOMAIN page.history :
                           isValidDate(page.history[j].recordingStartDateTime)}}
        /\ \A k \in DOMAIN download.rows :
              LET r == download.rows[k]
                  bucket == <<r.date, r.timeSlot>>
              IN /\ r.entering = BucketSum(page.history, bucket, "entering")
                 /\ r.exiting = BucketSum(page.history, bucket, "exiting")

\* a report was downloaded from a history with an entry whose start time is no date,
\* and it has a total of entering and a total of exiting visitors
C24_Witness ==
    /\ Downloaded
    /\ \E k \in DOMAIN page.history :
          ~isValidDate(page.history[k].recordingStartDateTime)
    /\ \E k \in DOMAIN download.rows : download.rows[k].entering # ZeroDouble
    /\ \E k \in DOMAIN download.rows : download.rows[k].exiting # ZeroDouble

\* C30: the entering and exiting totals of all the buckets of a downloaded report add
\* up to the sum of the visitorCount of all the entries with a valid start time,
\* whatever their direction
C30_AggregateConservesCounts ==
    Downloaded =>
        LET Valid(entry) == isValidDate(entry.recordingStartDateTime)
            valid == SelectSeq(page.history, Valid)
            totals == [k \in DOMAIN download.rows |->
                         AddDouble(download.rows[k].entering, download.rows[k].exiting)]
        IN SumFrom(totals, 1, ZeroDouble)
             = SumFrom([k \in DOMAIN valid |-> DoubleOf(valid[k].visitorCount)], 1, ZeroDouble)


-----------------------------------------------------------------------------
(* Properties of the single-file revision of the page *)

\* the entries of a history
Entries(history) == {history[k] : k \in DOMAIN history}

\* C29: in the single-file revision an entry that has left the history never comes
\* back: every entry that a step puts into the in-memory history or into
\* localStorage and that was not there before is the entry processed in that step, so
\* after Clear History a call submitted before it adds its own entry and nothing else
C29_ClearedEntriesStayCleared ==
    [][/\ \A entry \in Entries(page'.history) \ Entries(page.history) :
             entry.timestamp = clock
       /\ \A entry \in Entries(localStorage') \ Entries(localStorage) :
             entry.timestamp = clock]_vars

====
